---- MODULE Spec2Model ----
(***************************************************************************)
(* Model of the Nigerian tax calculator's calculation services.            *)
(*                                                                         *)
(* The services are pure functions over JavaScript numbers.  A number is   *)
(* modelled as an exact rational: <<w, n, d>> is w + n / d, with w the     *)
(* integer part and 0 <= n / d < 1 in lowest terms; Infinity is <<0, 0, 0>>.*)
(* The rounding of IEEE-754 doubles is not modelled.                       *)
(* A behaviour is one call of an exported function: the initial state     *)
(* holds the call and its arguments, drawn from bounded sets, and the      *)
(* function's action records the value it returns.                         *)
(*                                                                         *)
(* The authentication context, the send-reminders function and the         *)
(* update-subscription function keep state between their steps.  Each has  *)
(* a specification of its own (AuthSpec, RemindersSpec, SubscriptionSpec)  *)
(* over its own variables; a specification leaves the variables of the     *)
(* other parts empty.                                                      *)
(***************************************************************************)
EXTENDS Integers, Sequences, FiniteSets, TLC

\* the calculation services: one call, its arguments and what it returns
VARIABLES pc, input, result

\* AuthProvider: its React state, the calls of its methods that are under
\* way, the login attempts of authService, the clock (Date.now()), the
\* session the auth service holds, and the clicks on protected buttons
VARIABLES authState, pendingAction, showAuthModal, authModalMode,
          loginAttempts, now, session, configured, calls, handlers,
          clicks, ran, returned

\* send-reminders: the filing_reminders table, the day, the runs of the
\* function that are under way and the emails sent
VARIABLES filing_reminders, today, runs, emails

\* update-subscription: the request, the handler's position, its answer
\* and the subscriptions table
VARIABLES event, handlerPc, response, subscriptions

calcVars == <<pc, input, result>>

authVars == <<authState, pendingAction, showAuthModal, authModalMode,
              loginAttempts, now, session, configured, calls, handlers,
              clicks, ran, returned>>

reminderVars == <<filing_reminders, today, runs, emails>>

subscriptionVars == <<event, handlerPc, response, subscriptions>>

vars == <<calcVars, authVars, reminderVars, subscriptionVars>>

\* no call of a calculation service
CalcIdle == pc = "none" /\ input = <<>> /\ result = <<>>

\* no AuthProvider
AuthIdle ==
  /\ authState = <<>> /\ pendingAction = <<>> /\ showAuthModal = <<>>
  /\ authModalMode = <<>> /\ loginAttempts = <<>> /\ now = <<>>
  /\ session = <<>> /\ configured = <<>> /\ calls = <<>> /\ handlers = <<>>
  /\ clicks = <<>> /\ ran = <<>> /\ returned = <<>>

\* no send-reminders function
RemindersIdle ==
  filing_reminders = <<>> /\ today = <<>> /\ runs = <<>> /\ emails = <<>>

\* no update-subscription function
SubscriptionIdle ==
  event = <<>> /\ handlerPc = <<>> /\ response = <<>> /\ subscriptions = <<>>

-----------------------------------------------------------------------------
(* JavaScript numbers as exact rationals                                   *)

RECURSIVE GCD(_, _)
GCD(a, b) == IF b = 0 THEN a ELSE GCD(b, a % b)

\* the number w + n / d (d > 0) with its integer part taken out of the
\* fraction and the fraction in lowest terms
Norm(w, n, d) ==
  LET r == n % d
      g == GCD(r, d)
  IN  <<w + (n \div d), r \div g, d \div g>>

\* the number n / d
Frac(n, d) == Norm(0, n, d)

\* an integer literal
N(n) == <<n, 0, 1>>

Infinity == <<0, 0, 0>>

IsInfinity(a) == a[3] = 0

\* a + b
Plus(a, b) ==
  IF IsInfinity(a) \/ IsInfinity(b) THEN Infinity
  ELSE LET g == GCD(a[3], b[3])
           l == (a[3] \div g) * b[3]
       IN  Norm(a[1] + b[1], a[2] * (l \div a[3]) + b[2] * (l \div b[3]), l)

\* a - b (b finite)
Minus(a, b) ==
  IF IsInfinity(a) THEN Infinity ELSE Plus(a, Norm(-b[1], -b[2], b[3]))

\* a * b (both finite): the four products of the integer parts and the fractions
Times(a, b) ==
  LET g1 == GCD(a[2], b[3])
      g2 == GCD(b[2], a[3])
  IN  Plus(Plus(N(a[1] * b[1]), Frac(a[1] * b[2], b[3])),
           Plus(Frac(b[1] * a[2], a[3]),
                Frac((a[2] \div g1) * (b[2] \div g2), (a[3] \div g2) * (b[3] \div g1))))

\* a / b (both finite, b > 0: every division of the services is guarded)
Div(a, b) == Times(a, Frac(b[3], b[1] * b[3] + b[2]))

\* a <= b: by the integer parts, then by the fractions
Le(a, b) ==
  IF IsInfinity(b) THEN TRUE
  ELSE IF IsInfinity(a) THEN FALSE
  ELSE IF a[1] # b[1] THEN a[1] < b[1]
  ELSE a[2] * b[3] <= b[2] * a[3]

\* a > b
Gt(a, b) == ~Le(a, b)

MathMin(a, b) == IF Le(a, b) THEN a ELSE b

MathMax(a, b) == IF Le(a, b) THEN b ELSE a

Zero == N(0)

\* (a / b) * 100, the product taken first: the same number
Percent(a, b) == Div(Times(a, N(100)), b)

-----------------------------------------------------------------------------
(* Tax configuration                                                       *)

\* null: a bracket without upper limit
Null == <<>>

PIT_BRACKETS ==
  << [min |-> N(0),        max |-> N(800000),   rate |-> N(0),  label |-> "Tax-Exempt"],
     [min |-> N(800001),   max |-> N(3000000),  rate |-> N(15), label |-> "15% Bracket"],
     [min |-> N(3000001),  max |-> N(12000000), rate |-> N(18), label |-> "18% Bracket"],
     [min |-> N(12000001), max |-> N(25000000), rate |-> N(21), label |-> "21% Bracket"],
     [min |-> N(25000001), max |-> N(50000000), rate |-> N(23), label |-> "23% Bracket"],
     [min |-> N(50000001), max |-> Null,        rate |-> N(25), label |-> "25% Bracket (Maximum)"] >>

PIT_EXEMPT_THRESHOLD == N(800000)

JOB_LOSS_COMPENSATION_EXEMPT_LIMIT == N(50000000)

RENT_RELIEF_MAX == N(500000)

SMALL_COMPANY_TURNOVER_LIMIT == N(100000000)

COMPANY_CGT_RATE == N(30)

SMALL_COMPANY_CGT_RATE == N(0)

CIT_RATE == N(30)

SMALL_COMPANY_CIT_RATE == N(0)

DEVELOPMENT_LEVY_RATE == N(4)

MINIMUM_EFFECTIVE_TAX_RATE == N(15)

\* 7.5
VAT_RATE == Frac(15, 2)

-----------------------------------------------------------------------------
(* calculateProgressiveTax                                                 *)

\* mutant: the bracket's size without the + 1
BracketSizeOffByOne(bracket) ==
  LET bracketMin == bracket.min
      bracketMax == IF bracket.max = Null THEN Infinity ELSE bracket.max
  IN  Minus(bracketMax, bracketMin)

\* bracket.max ?? Infinity, less bracket.min, plus 1
BracketSize(bracket) ==
  LET bracketMin == bracket.min
      bracketMax == IF bracket.max = Null THEN Infinity ELSE bracket.max
  IN  Plus(Minus(bracketMax, bracketMin), N(1))

\* mutant: a bracket reached with nothing remaining is left out
SkippedBracketDropped(bracket, st) == st

\* a bracket reached with nothing remaining: listed with zero values
SkippedBracket(bracket, st) ==
  [st EXCEPT !.breakdown = Append(@, [bracket |-> bracket,
                                      taxableInBracket |-> Zero,
                                      taxForBracket |-> Zero])]

\* mutant: totalTax = taxForBracket, an assignment for the +=
AccumulateTaxOverwrites(totalTax, taxForBracket) == taxForBracket

\* totalTax += taxForBracket
AccumulateTax(totalTax, taxForBracket) == Plus(totalTax, taxForBracket)

\* one iteration of the loop over PIT_BRACKETS; st is the loop's state
\* (breakdown, totalTax, remainingIncome)
ProgressiveTaxStep(bracket, st, taxableIncome) ==
  IF Le(st.remainingIncome, Zero)
  THEN SkippedBracket(bracket, st)
  ELSE LET bracketSize == BracketSize(bracket)
       IN  IF bracket.rate = Zero
           THEN IF Le(taxableIncome, PIT_EXEMPT_THRESHOLD)
                THEN [st EXCEPT !.breakdown = Append(@, [bracket |-> bracket,
                                                          taxableInBracket |-> taxableIncome,
                                                          taxForBracket |-> Zero]),
                                !.remainingIncome = Zero]
                ELSE [st EXCEPT !.breakdown = Append(@, [bracket |-> bracket,
                                                          taxableInBracket |-> PIT_EXEMPT_THRESHOLD,
                                                          taxForBracket |-> Zero]),
                                !.remainingIncome = Minus(taxableIncome, PIT_EXEMPT_THRESHOLD)]
           ELSE LET taxableInBracket == MathMin(st.remainingIncome, bracketSize)
                    taxForBracket    == Div(Times(taxableInBracket, bracket.rate), N(100))
                IN  [breakdown       |-> Append(st.breakdown, [bracket |-> bracket,
                                                                taxableInBracket |-> taxableInBracket,
                                                                taxForBracket |-> taxForBracket]),
                     totalTax        |-> AccumulateTax(st.totalTax, taxForBracket),
                     remainingIncome |-> Minus(st.remainingIncome, taxableInBracket)]

RECURSIVE ProgressiveTaxLoop(_, _, _)
ProgressiveTaxLoop(i, st, taxableIncome) ==
  IF i > Len(PIT_BRACKETS) THEN st
  ELSE ProgressiveTaxLoop(i + 1, ProgressiveTaxStep(PIT_BRACKETS[i], st, taxableIncome),
                          taxableIncome)

calculateProgressiveTax(taxableIncome) ==
  LET st == ProgressiveTaxLoop(1, [breakdown |-> <<>>, totalTax |-> Zero,
                                   remainingIncome |-> taxableIncome], taxableIncome)
  IN  [totalTax |-> st.totalTax, breakdown |-> st.breakdown]

-----------------------------------------------------------------------------
(* calculateGrossIncome, calculateDeductions, calculatePIT                 *)

RECURSIVE calculateGrossIncome(_)
calculateGrossIncome(incomeSources) ==
  IF incomeSources = <<>> THEN Zero
  ELSE Plus(calculateGrossIncome(SubSeq(incomeSources, 1, Len(incomeSources) - 1)),
            incomeSources[Len(incomeSources)].amount)

\* the amount one deduction is applied with, and whether a limit cut it
AppliedDeduction(deduction, grossIncome) ==
  LET a1 == IF deduction.type = "rent_relief" /\ Gt(deduction.amount, RENT_RELIEF_MAX)
            THEN [amount |-> RENT_RELIEF_MAX, capped |-> TRUE]
            ELSE [amount |-> deduction.amount, capped |-> FALSE]
      a2 == IF deduction.type = "job_loss" /\ Gt(a1.amount, JOB_LOSS_COMPENSATION_EXEMPT_LIMIT)
            THEN [amount |-> JOB_LOSS_COMPENSATION_EXEMPT_LIMIT, capped |-> TRUE]
            ELSE a1
      maxPension == Times(grossIncome, Frac(8, 100))
      a3 == IF deduction.type = "pension" /\ Gt(a2.amount, maxPension)
            THEN [amount |-> maxPension, capped |-> TRUE]
            ELSE a2
  IN  [type |-> deduction.type, amount |-> a3.amount, capped |-> a3.capped]

RECURSIVE DeductionsLoop(_, _, _)
DeductionsLoop(i, st, args) ==
  IF i > Len(args.deductions) THEN st
  ELSE LET a == AppliedDeduction(args.deductions[i], args.grossIncome)
       IN  DeductionsLoop(i + 1, [applied |-> Append(st.applied, a),
                                  total   |-> Plus(st.total, a.amount)], args)

\* mutant: the total of the deductions is not held to the gross income
CapAtGrossIncomeMissing(total, grossIncome) == total

\* total deductions cannot exceed gross income
CapAtGrossIncome(total, grossIncome) ==
  IF Gt(total, grossIncome) THEN grossIncome ELSE total

calculateDeductions(deductions, grossIncome) ==
  LET st == DeductionsLoop(1, [applied |-> <<>>, total |-> Zero],
                           [deductions |-> deductions, grossIncome |-> grossIncome])
  IN  [total   |-> CapAtGrossIncome(st.total, grossIncome),
       applied |-> st.applied]

\* Math.round
MathRound(a) == N(Plus(a, Frac(1, 2))[1])

\* mutant: the final tax rounded to whole naira
FinalTaxRounded(isResident, totalTax) == MathRound(totalTax)

\* mutant: a non-resident pays a surcharge of a tenth
FinalTaxNonResident(isResident, totalTax) ==
  IF isResident THEN totalTax ELSE Times(totalTax, Frac(11, 10))

\* the tax of a non-resident: the same as a resident's
FinalTax(isResident, totalTax) == IF isResident THEN totalTax ELSE totalTax

\* mutant: < for <=, so that an income of exactly the threshold is taxed
IsExemptIncomeStrict(taxableIncome) ==
  Le(taxableIncome, PIT_EXEMPT_THRESHOLD) /\ taxableIncome # PIT_EXEMPT_THRESHOLD

\* the check of the exempt threshold
IsExemptIncome(taxableIncome) == Le(taxableIncome, PIT_EXEMPT_THRESHOLD)

\* mutant: the exempt result lists the brackets the allocator walks
ExemptBracketBreakdownWalked(taxableIncome) ==
  calculateProgressiveTax(taxableIncome).breakdown

\* the breakdown of an exempt result: the first bracket alone
ExemptBracketBreakdown(taxableIncome) ==
  << [bracket |-> PIT_BRACKETS[1],
      taxableInBracket |-> taxableIncome,
      taxForBracket |-> Zero] >>

\* mutant: a yearly amount / 52
MonthlyByWeeks(amount) == Div(amount, N(52))

\* a yearly amount / 12
Monthly(amount) == Div(amount, N(12))

calculatePIT(incomeSources, deductions, isResident) ==
  LET grossIncome     == calculateGrossIncome(incomeSources)
      totalDeductions == calculateDeductions(deductions, grossIncome).total
      taxableIncome   == MathMax(Zero, Minus(grossIncome, totalDeductions))
  IN  IF IsExemptIncome(taxableIncome)
      THEN [grossIncome      |-> grossIncome,
            totalDeductions  |-> totalDeductions,
            taxableIncome    |-> taxableIncome,
            totalTax         |-> Zero,
            netTakeHome      |-> Minus(grossIncome, totalDeductions),
            effectiveRate    |-> Zero,
            isExempt         |-> TRUE,
            exemptReason     |-> <<"Annual income of", taxableIncome, "is below",
                                   PIT_EXEMPT_THRESHOLD, "threshold">>,
            bracketBreakdown |-> ExemptBracketBreakdown(taxableIncome),
            monthlyTax       |-> Zero,
            monthlyNetPay    |-> Monthly(Minus(grossIncome, totalDeductions))]
      ELSE LET pt            == calculateProgressiveTax(taxableIncome)
               finalTax      == FinalTax(isResident, pt.totalTax)
               netTakeHome   == Minus(Minus(grossIncome, totalDeductions), finalTax)
               effectiveRate == IF Gt(grossIncome, Zero)
                                THEN Percent(finalTax, grossIncome)
                                ELSE Zero
           IN  [grossIncome      |-> grossIncome,
                totalDeductions  |-> totalDeductions,
                taxableIncome    |-> taxableIncome,
                totalTax         |-> finalTax,
                netTakeHome      |-> netTakeHome,
                effectiveRate    |-> effectiveRate,
                isExempt         |-> FALSE,
                bracketBreakdown |-> pt.breakdown,
                monthlyTax       |-> Monthly(finalTax),
                monthlyNetPay    |-> Monthly(netTakeHome)]

-----------------------------------------------------------------------------
(* calculateCGT                                                            *)

\* an optional property that is absent reads as undefined
Has(r, f) == f \in DOMAIN r

\* r[f] || 0
OrZero(r, f) == IF Has(r, f) /\ r[f] # Zero THEN r[f] ELSE Zero

\* r[f] && r[f] > 0
Positive(r, f) == Has(r, f) /\ Gt(r[f], Zero)

\* mutant: the costs of the transfer are left out
calculateTotalCostsWithoutTransfer(in) ==
  Plus(in.acquisitionCost, OrZero(in, "improvementCosts"))

calculateTotalCosts(in) ==
  Plus(Plus(in.acquisitionCost, OrZero(in, "improvementCosts")),
       OrZero(in, "transferCosts"))

\* the breakdown lines both exempt results list
ExemptBreakdown(in, capitalGain, note) ==
  << [label |-> "Sale Proceeds",     amount |-> in.saleProceeds],
     [label |-> "Acquisition Cost",  amount |-> in.acquisitionCost],
     [label |-> "Improvement Costs", amount |-> OrZero(in, "improvementCosts")],
     [label |-> "Transfer Costs",    amount |-> OrZero(in, "transferCosts")],
     [label |-> "Capital Gain",      amount |-> capitalGain],
     [label |-> "CGT (Exempt)",      amount |-> Zero, note |-> note] >>

\* the breakdown lines both taxed results start with
CostBreakdown(in, capitalGain) ==
  << [label |-> "Sale Proceeds",    amount |-> in.saleProceeds],
     [label |-> "Acquisition Cost", amount |-> in.acquisitionCost] >>
  \o (IF Positive(in, "improvementCosts")
      THEN << [label |-> "Improvement Costs", amount |-> in.improvementCosts] >>
      ELSE << >>)
  \o (IF Positive(in, "transferCosts")
      THEN << [label |-> "Transfer Costs", amount |-> in.transferCosts] >>
      ELSE << >>)
  \o << [label |-> "Capital Gain", amount |-> capitalGain] >>

calculateCompanyCGT(in) ==
  LET totalCosts     == calculateTotalCosts(in)
      capitalGain    == MathMax(Zero, Minus(in.saleProceeds, totalCosts))
      isSmallCompany == Has(in, "companyTurnover")
                        /\ Le(in.companyTurnover, SMALL_COMPANY_TURNOVER_LIMIT)
      cgtAmount      == Div(Times(capitalGain, COMPANY_CGT_RATE), N(100))
  IN  IF isSmallCompany
      THEN [taxpayerType  |-> "company",
            saleProceeds  |-> in.saleProceeds,
            totalCosts    |-> totalCosts,
            capitalGain   |-> capitalGain,
            cgtRate       |-> SMALL_COMPANY_CGT_RATE,
            cgtAmount     |-> Zero,
            netProceeds   |-> in.saleProceeds,
            effectiveRate |-> Zero,
            isExempt      |-> TRUE,
            exemptReason  |-> <<"Small company (turnover <=", SMALL_COMPANY_TURNOVER_LIMIT,
                                ") - CGT exempt">>,
            breakdown     |-> ExemptBreakdown(in, capitalGain, "Small company exemption")]
      ELSE [taxpayerType  |-> "company",
            saleProceeds  |-> in.saleProceeds,
            totalCosts    |-> totalCosts,
            capitalGain   |-> capitalGain,
            cgtRate       |-> COMPANY_CGT_RATE,
            cgtAmount     |-> cgtAmount,
            netProceeds   |-> Minus(in.saleProceeds, cgtAmount),
            effectiveRate |-> IF Gt(in.saleProceeds, Zero)
                              THEN Percent(cgtAmount, in.saleProceeds)
                              ELSE Zero,
            isExempt      |-> FALSE,
            breakdown     |-> CostBreakdown(in, capitalGain)
                              \o << [label  |-> "CGT (30%)",
                                     amount |-> cgtAmount,
                                     note   |-> IF Has(in, "isOffshoreTransfer")
                                                   /\ in.isOffshoreTransfer
                                                THEN "Includes indirect offshore share transfer"
                                                ELSE "undefined"] >>]

\* the lines of the brackets that hold a part of the gain
RECURSIVE BracketLines(_)
BracketLines(bracketBreakdown) ==
  IF bracketBreakdown = <<>> THEN <<>>
  ELSE LET b == Head(bracketBreakdown)
       IN  (IF Gt(b.taxableInBracket, Zero)
            THEN << [label  |-> <<"Tax @", b.bracket.rate, "%">>,
                     amount |-> b.taxForBracket,
                     note   |-> <<"On", b.taxableInBracket>>] >>
            ELSE << >>)
           \o BracketLines(Tail(bracketBreakdown))

\* the exempt threshold of calculateIndividualCGT, a literal of its own
exemptThreshold == N(800000)

\* mutant: an individual's gain is taxed at the companies' flat rate
calculateIndividualCGTFlat(in) ==
  [calculateCompanyCGT(in) EXCEPT !.taxpayerType = "individual"]

calculateIndividualCGT(in) ==
  LET totalCosts    == calculateTotalCosts(in)
      capitalGain   == MathMax(Zero, Minus(in.saleProceeds, totalCosts))
  IN  IF Le(capitalGain, exemptThreshold)
      THEN [taxpayerType  |-> "individual",
            saleProceeds  |-> in.saleProceeds,
            totalCosts    |-> totalCosts,
            capitalGain   |-> capitalGain,
            cgtRate       |-> "0%",
            cgtAmount     |-> Zero,
            netProceeds   |-> in.saleProceeds,
            effectiveRate |-> Zero,
            isExempt      |-> TRUE,
            exemptReason  |-> <<"Capital gain of", capitalGain, "is below",
                                exemptThreshold, "threshold">>,
            breakdown     |-> ExemptBreakdown(in, capitalGain, "Below exempt threshold")]
      ELSE LET pt            == calculateProgressiveTax(capitalGain)
               effectiveRate == IF Gt(capitalGain, Zero)
                                THEN Percent(pt.totalTax, capitalGain)
                                ELSE Zero
           IN  [taxpayerType  |-> "individual",
                saleProceeds  |-> in.saleProceeds,
                totalCosts    |-> totalCosts,
                capitalGain   |-> capitalGain,
                cgtRate       |-> "Progressive (max 25%)",
                cgtAmount     |-> pt.totalTax,
                netProceeds   |-> Minus(in.saleProceeds, pt.totalTax),
                effectiveRate |-> effectiveRate,
                isExempt      |-> FALSE,
                breakdown     |-> CostBreakdown(in, capitalGain)
                                  \o BracketLines(pt.breakdown)
                                  \o << [label |-> "Total CGT", amount |-> pt.totalTax] >>]

\* mutant: a company that gives no turnover counts as a small company
calculateCGTAbsentTurnoverSmall(in) ==
  IF in.taxpayerType = "company"
  THEN calculateCompanyCGT(in @@ [companyTurnover |-> Zero])
  ELSE calculateIndividualCGT(in)

calculateCGT(in) ==
  IF in.taxpayerType = "company" THEN calculateCompanyCGT(in)
  ELSE calculateIndividualCGT(in)

-----------------------------------------------------------------------------
(* calculateCIT                                                            *)

\* undefined: the value of an optional property that is absent
Undefined == <<>>

\* r[f], undefined when the property is absent
Get(r, f) == IF Has(r, f) THEN r[f] ELSE Undefined

\* a parameter with the default value 0: undefined reads as 0
DefaultZero(v) == IF v = Undefined THEN Zero ELSE v

\* mutant: < for <=, so that a turnover of exactly the limit is "other"
determineCompanySizeStrict(turnover) ==
  IF Le(turnover, SMALL_COMPANY_TURNOVER_LIMIT) /\ turnover # SMALL_COMPANY_TURNOVER_LIMIT
  THEN "small" ELSE "other"

determineCompanySize(turnover) ==
  IF Le(turnover, SMALL_COMPANY_TURNOVER_LIMIT) THEN "small" ELSE "other"

calculateSmallCompanyCIT(in) ==
  [companySize         |-> "small",
   turnover            |-> in.turnover,
   assessableProfits   |-> in.assessableProfits,
   citRate             |-> SMALL_COMPANY_CIT_RATE,
   citAmount           |-> Zero,
   developmentLevy     |-> Zero,
   totalTaxBeforeTopUp |-> Zero,
   effectiveTaxRate    |-> Zero,
   minimumTaxTopUp     |-> Zero,
   cfcTax              |-> Zero,
   totalTaxPayable     |-> Zero,
   breakdown           |->
     << [label  |-> "Company Classification",
         amount |-> Zero,
         note   |-> <<"Small Company (Turnover <=", SMALL_COMPANY_TURNOVER_LIMIT, ")">>],
        [label  |-> "Corporate Income Tax",
         amount |-> Zero,
         rate   |-> SMALL_COMPANY_CIT_RATE,
         note   |-> "0% CIT rate for small companies"],
        [label  |-> "Development Levy",
         amount |-> Zero,
         rate   |-> Zero,
         note   |-> "Exempt for small companies"] >>]

\* mutant: the whole minimum tax is charged on top of the current tax
calculateMinimumTaxTopUpWhole(assessableProfits, currentTax, isSubjectToMETR) ==
  IF ~isSubjectToMETR \/ Le(assessableProfits, Zero) THEN Zero
  ELSE IF Le(MINIMUM_EFFECTIVE_TAX_RATE, Percent(currentTax, assessableProfits)) THEN Zero
  ELSE Div(Times(assessableProfits, MINIMUM_EFFECTIVE_TAX_RATE), N(100))

\* mutant: the current rate is left a fraction, without * 100
calculateMinimumTaxTopUpFraction(assessableProfits, currentTax, isSubjectToMETR) ==
  IF ~isSubjectToMETR \/ Le(assessableProfits, Zero) THEN Zero
  ELSE IF Le(MINIMUM_EFFECTIVE_TAX_RATE, Div(currentTax, assessableProfits)) THEN Zero
  ELSE Minus(Div(Times(assessableProfits, MINIMUM_EFFECTIVE_TAX_RATE), N(100)), currentTax)

calculateMinimumTaxTopUp(assessableProfits, currentTax, isSubjectToMETR) ==
  IF ~isSubjectToMETR \/ Le(assessableProfits, Zero) THEN Zero
  ELSE LET currentEffectiveRate == Percent(currentTax, assessableProfits)
           minimumTax == Div(Times(assessableProfits, MINIMUM_EFFECTIVE_TAX_RATE), N(100))
       IN  IF Le(MINIMUM_EFFECTIVE_TAX_RATE, currentEffectiveRate) THEN Zero
           ELSE Minus(minimumTax, currentTax)

\* mutant: the difference is taxed as it is, without Math.max(0, ...)
calculateCFCTaxSigned(foreignProfits, distributedProfits) ==
  Div(Times(Minus(DefaultZero(foreignProfits), DefaultZero(distributedProfits)),
            CIT_RATE), N(100))

calculateCFCTax(foreignProfits, distributedProfits) ==
  LET undistributedProfits ==
        MathMax(Zero, Minus(DefaultZero(foreignProfits), DefaultZero(distributedProfits)))
  IN  Div(Times(undistributedProfits, CIT_RATE), N(100))

\* mutant: the tax on foreign profits is left out of the total
TotalTaxPayableWithoutCFC(totalTaxBeforeTopUp, minimumTaxTopUp, cfcTax) ==
  Plus(totalTaxBeforeTopUp, minimumTaxTopUp)

\* totalTaxBeforeTopUp + minimumTaxTopUp + cfcTax
TotalTaxPayable(totalTaxBeforeTopUp, minimumTaxTopUp, cfcTax) ==
  Plus(Plus(totalTaxBeforeTopUp, minimumTaxTopUp), cfcTax)

\* mutant: the division is not guarded; x / 0 is Infinity (0 / 0 is NaN)
EffectiveTaxRateUnguarded(totalTaxPayable, assessableProfits) ==
  IF Gt(assessableProfits, Zero) THEN Percent(totalTaxPayable, assessableProfits)
  ELSE Infinity

\* the effective rate of the total tax, 0 without profits
EffectiveTaxRate(totalTaxPayable, assessableProfits) ==
  IF Gt(assessableProfits, Zero) THEN Percent(totalTaxPayable, assessableProfits)
  ELSE Zero

calculateOtherCompanyCIT(in) ==
  LET citAmount           == Div(Times(in.assessableProfits, CIT_RATE), N(100))
      developmentLevy     == Div(Times(in.assessableProfits, DEVELOPMENT_LEVY_RATE), N(100))
      totalTaxBeforeTopUp == Plus(citAmount, developmentLevy)
      minimumTaxTopUp     == calculateMinimumTaxTopUp(in.assessableProfits,
                                                      totalTaxBeforeTopUp,
                                                      in.isMultinationalSubject)
      cfcTax              == calculateCFCTax(Get(in, "foreignProfits"),
                                             Get(in, "distributedForeignProfits"))
      totalTaxPayable     == TotalTaxPayable(totalTaxBeforeTopUp, minimumTaxTopUp, cfcTax)
  IN  [companySize         |-> "other",
       turnover            |-> in.turnover,
       assessableProfits   |-> in.assessableProfits,
       citRate             |-> CIT_RATE,
       citAmount           |-> citAmount,
       developmentLevy     |-> developmentLevy,
       totalTaxBeforeTopUp |-> totalTaxBeforeTopUp,
       effectiveTaxRate    |-> EffectiveTaxRate(totalTaxPayable, in.assessableProfits),
       minimumTaxTopUp     |-> minimumTaxTopUp,
       cfcTax              |-> cfcTax,
       totalTaxPayable     |-> totalTaxPayable,
       breakdown           |->
         << [label  |-> "Corporate Income Tax",
             amount |-> citAmount,
             rate   |-> CIT_RATE,
             note   |-> "30% on assessable profits"],
            [label  |-> "Development Levy",
             amount |-> developmentLevy,
             rate   |-> DEVELOPMENT_LEVY_RATE,
             note   |-> "4% of assessable profits"] >>
         \o (IF in.isMultinationalSubject
             THEN << [label  |-> "Minimum Tax Top-Up (METR 15%)",
                      amount |-> minimumTaxTopUp,
                      rate   |-> MINIMUM_EFFECTIVE_TAX_RATE,
                      note   |-> IF Gt(minimumTaxTopUp, Zero)
                                 THEN "Top-up applied to meet 15% minimum effective rate"
                                 ELSE "No top-up needed - effective rate already >=15%"] >>
             ELSE << >>)
         \o (IF Positive(in, "foreignProfits")
             THEN << [label  |-> "CFC Tax (Foreign Profits)",
                      amount |-> cfcTax,
                      rate   |-> CIT_RATE,
                      note   |-> "Tax on undistributed foreign subsidiary profits"] >>
             ELSE << >>)]

calculateCIT(in) ==
  IF determineCompanySize(in.turnover) = "small" THEN calculateSmallCompanyCIT(in)
  ELSE calculateOtherCompanyCIT(in)

-----------------------------------------------------------------------------
(* calculateVAT                                                            *)

\* mutant: the rate is taken off the inclusive price, grossAmount * (1 - vatMultiplier)
NetOfGrossByRate(grossAmount, vatMultiplier) ==
  Times(grossAmount, Minus(N(1), vatMultiplier))

\* grossAmount / (1 + vatMultiplier)
NetOfGross(grossAmount, vatMultiplier) == Div(grossAmount, Plus(N(1), vatMultiplier))

calculateVAT(in) ==
  LET vatRate       == VAT_RATE
      vatMultiplier == Div(vatRate, N(100))
  IN  IF in.calculationType = "exclusive"
      THEN LET netAmount   == in.amount
               vatAmount   == Times(netAmount, vatMultiplier)
               grossAmount == Plus(netAmount, vatAmount)
           IN  [originalAmount  |-> in.amount,
                vatRate         |-> vatRate,
                vatAmount       |-> vatAmount,
                netAmount       |-> netAmount,
                grossAmount     |-> grossAmount,
                calculationType |-> "exclusive"]
      ELSE LET grossAmount == in.amount
               netAmount   == NetOfGross(grossAmount, vatMultiplier)
               vatAmount   == Minus(grossAmount, netAmount)
           IN  [originalAmount  |-> in.amount,
                vatRate         |-> vatRate,
                vatAmount       |-> vatAmount,
                netAmount       |-> netAmount,
                grossAmount     |-> grossAmount,
                calculationType |-> "inclusive"]

\* a < b
Lt(a, b) == Le(a, b) /\ a # b

\* mutant: <= for <, so that a net VAT of 0 is refundable
calculateBusinessVATRefundableAtZero(in) ==
  LET netVAT == Minus(in.outputVAT, in.inputVAT)
  IN  [outputVAT    |-> in.outputVAT,
       inputVAT     |-> in.inputVAT,
       netVAT       |-> netVAT,
       isPayable    |-> Gt(netVAT, Zero),
       isRefundable |-> Le(netVAT, Zero),
       explanation  |-> "refund"]

calculateBusinessVAT(in) ==
  LET netVAT       == Minus(in.outputVAT, in.inputVAT)
      isPayable    == Gt(netVAT, Zero)
      isRefundable == Lt(netVAT, Zero)
  IN  [outputVAT    |-> in.outputVAT,
       inputVAT     |-> in.inputVAT,
       netVAT       |-> netVAT,
       isPayable    |-> isPayable,
       isRefundable |-> isRefundable,
       explanation  |-> IF isPayable THEN "You owe"
                        ELSE IF isRefundable THEN "You are entitled to a refund"
                        ELSE "No VAT payment or refund is due"]

-----------------------------------------------------------------------------
(* calculateVAT in IEEE 754 double precision                               *)

(* The numbers of the program are JavaScript numbers: doubles, whose       *)
(* operations round the exact result to 53 binary digits, a tie to the     *)
(* even one. A natural number is here the sequence of its digits to the    *)
(* base 2^15, lowest first and the highest not 0; a double is m * 2^e with *)
(* m of 53 binary digits, or zero. The amounts of the calls are far from   *)
(* the subnormal numbers and from Infinity, which are left out. The other  *)
(* calculators above are in exact arithmetic; here the rounding is what    *)
(* the round trip of a price is about.                                     *)

LimbBase == 2 ^ 15

\* the digits of a natural number that an integer of the model can hold
RECURSIVE NatOf(_)
NatOf(n) == IF n = 0 THEN <<>> ELSE <<n % LimbBase>> \o NatOf(n \div LimbBase)

\* the digits without the zeros at the top
RECURSIVE TrimNat(_)
TrimNat(a) ==
  IF a = <<>> \/ a[Len(a)] # 0 THEN a ELSE TrimNat(SubSeq(a, 1, Len(a) - 1))

\* the digit of a at LimbBase^(i-1)
Limb(a, i) == IF i <= Len(a) THEN a[i] ELSE 0

RECURSIVE AddFrom(_, _, _, _)
AddFrom(a, b, i, carry) ==
  IF i > Len(a) /\ i > Len(b) THEN (IF carry = 0 THEN <<>> ELSE <<carry>>)
  ELSE LET s == Limb(a, i) + Limb(b, i) + carry
       IN  <<s % LimbBase>> \o AddFrom(a, b, i + 1, s \div LimbBase)

\* a + b
AddNat(a, b) == AddFrom(a, b, 1, 0)

RECURSIVE SubFrom(_, _, _, _)
SubFrom(a, b, i, borrow) ==
  IF i > Len(a) THEN <<>>
  ELSE LET d == Limb(a, i) - Limb(b, i) - borrow
       IN  <<(d + LimbBase) % LimbBase>>
             \o SubFrom(a, b, i + 1, IF d < 0 THEN 1 ELSE 0)

\* a - b, for a >= b
SubNat(a, b) == TrimNat(SubFrom(a, b, 1, 0))

RECURSIVE LeFrom(_, _, _)
LeFrom(a, b, i) ==
  IF i = 0 THEN TRUE
  ELSE IF a[i] # b[i] THEN a[i] < b[i]
  ELSE LeFrom(a, b, i - 1)

\* a <= b
LeNat(a, b) == IF Len(a) # Len(b) THEN Len(a) < Len(b) ELSE LeFrom(a, b, Len(a))

RECURSIVE MulSmallFrom(_, _, _, _)
MulSmallFrom(a, k, i, carry) ==
  IF i > Len(a) THEN (IF carry = 0 THEN <<>> ELSE <<carry>>)
  ELSE LET p == a[i] * k + carry
       IN  <<p % LimbBase>> \o MulSmallFrom(a, k, i + 1, p \div LimbBase)

\* a * k, for 0 <= k < LimbBase
MulSmall(a, k) == IF k = 0 THEN <<>> ELSE MulSmallFrom(a, k, 1, 0)

\* a * LimbBase^n
ShiftLimbs(a, n) == IF a = <<>> THEN <<>> ELSE [i \in 1..n |-> 0] \o a

RECURSIVE MulFrom(_, _, _)
MulFrom(a, b, i) ==
  IF i > Len(a) THEN <<>>
  ELSE AddNat(MulSmall(b, a[i]), ShiftLimbs(MulFrom(a, b, i + 1), 1))

\* a * b
MulNat(a, b) == MulFrom(a, b, 1)

\* a * 2^k
ShiftLeftBits(a, k) == ShiftLimbs(MulSmall(a, 2 ^ (k % 15)), k \div 15)

RECURSIVE DivSmallFrom(_, _, _, _)
DivSmallFrom(a, k, i, rem) ==
  IF i = 0 THEN <<>>
  ELSE LET cur == rem * LimbBase + a[i]
       IN  DivSmallFrom(a, k, i - 1, cur % k) \o <<cur \div k>>

\* floor(a / 2^k)
ShiftRightBits(a, k) ==
  IF k \div 15 >= Len(a) THEN <<>>
  ELSE LET top == SubSeq(a, k \div 15 + 1, Len(a))
       IN  TrimNat(DivSmallFrom(top, 2 ^ (k % 15), Len(top), 0))

RECURSIVE IntBitLen(_)
IntBitLen(n) == IF n = 0 THEN 0 ELSE 1 + IntBitLen(n \div 2)

\* the number of binary digits of a
BitLen(a) == IF a = <<>> THEN 0 ELSE 15 * (Len(a) - 1) + IntBitLen(a[Len(a)])

\* the digit d with d * b <= rem < (d + 1) * b, for rem < b * LimbBase and
\* the highest digit of b at least LimbBase / 2: the two highest digits of
\* rem by the highest of b, plus 1, is at most 4 below it
DigitOf(rem, b) ==
  LET top == Limb(rem, Len(b) + 1) * LimbBase + Limb(rem, Len(b))
      low == top \div (b[Len(b)] + 1)
      est == IF low >= LimbBase THEN LimbBase - 1 ELSE low
  IN  CHOOSE d \in est .. est + 4 :
        /\ d < LimbBase
        /\ LeNat(MulSmall(b, d), rem)
        /\ d + 1 = LimbBase \/ ~LeNat(MulSmall(b, d + 1), rem)

\* the quotient and the remainder by b of the digits of a from i + 1 upwards
\* are q and r: those of all of a, a digit at a time
RECURSIVE DivFrom(_, _, _, _, _)
DivFrom(a, b, i, q, r) ==
  IF i = 0 THEN [q |-> q, r |-> r]
  ELSE LET rem == TrimNat(<<a[i]>> \o r)
           d   == DigitOf(rem, b)
       IN  IF d = 0 /\ q = <<>> THEN DivFrom(a, b, i - 1, <<>>, rem)
           ELSE DivFrom(a, b, i - 1, <<d>> \o q, SubNat(rem, MulSmall(b, d)))

\* the quotient q of a by b, for b # 0, and whether it is exact: both are
\* first multiplied by the power of 2 that makes the highest digit of b at
\* least LimbBase / 2
DivNat(a, b) ==
  LET s == 15 - IntBitLen(b[Len(b)])
      d == DivFrom(ShiftLeftBits(a, s), ShiftLeftBits(b, s),
                   Len(ShiftLeftBits(a, s)), <<>>, <<>>)
  IN  [q |-> d.q, exact |-> d.r = <<>>]

\* the double 0
DoubleZero == [m |-> <<>>, e |-> 0]

\* the double nearest to m * 2^e, or to a little more than that if sticky:
\* 53 binary digits are kept, and a tie goes to the even one
RoundDouble(m, e, sticky) ==
  IF m = <<>> THEN DoubleZero
  ELSE IF BitLen(m) <= 53
  THEN [m |-> ShiftLeftBits(m, 53 - BitLen(m)), e |-> e - (53 - BitLen(m))]
  ELSE LET drop    == BitLen(m) - 53
           kept    == ShiftRightBits(m, drop)
           rest    == SubNat(m, ShiftLeftBits(kept, drop))
           half    == ShiftLeftBits(<<1>>, drop - 1)
           up      == /\ LeNat(half, rest)
                      /\ rest # half \/ sticky \/ kept[1] % 2 = 1
           rounded == IF up THEN AddNat(kept, <<1>>) ELSE kept
       IN  IF BitLen(rounded) = 54
           THEN [m |-> ShiftRightBits(rounded, 1), e |-> e + drop + 1]
           ELSE [m |-> rounded, e |-> e + drop]

\* the smaller of two exponents
MinExp(x, y) == IF x.e <= y.e THEN x.e ELSE y.e

\* x * y
DoubleTimes(x, y) == RoundDouble(MulNat(x.m, y.m), x.e + y.e, FALSE)

\* x + y
DoublePlus(x, y) ==
  IF x.m = <<>> THEN y
  ELSE IF y.m = <<>> THEN x
  ELSE RoundDouble(AddNat(ShiftLeftBits(x.m, x.e - MinExp(x, y)),
                          ShiftLeftBits(y.m, y.e - MinExp(x, y))),
                   MinExp(x, y), FALSE)

\* x - y, for x >= y
DoubleMinus(x, y) ==
  IF y.m = <<>> THEN x
  ELSE RoundDouble(SubNat(ShiftLeftBits(x.m, x.e - MinExp(x, y)),
                          ShiftLeftBits(y.m, y.e - MinExp(x, y))),
                   MinExp(x, y), FALSE)

\* x / y, for y # 0
DoubleDiv(x, y) ==
  IF x.m = <<>> THEN DoubleZero
  ELSE LET d == DivNat(ShiftLeftBits(x.m, 56), y.m)
       IN  RoundDouble(d.q, x.e - 56 - y.e, ~d.exact)

\* the double of a number literal that is a natural number
DoubleOf(n) == RoundDouble(NatOf(n), 0, FALSE)

\* the double of a number of the configuration
ToDouble(r) == DoubleDiv(DoubleOf(r[1] * r[3] + r[2]), DoubleOf(r[3]))

\* mutant: the rate is taken off the inclusive price
NetOfGrossDoubleByRate(grossAmount, vatMultiplier) ==
  DoubleTimes(grossAmount, DoubleMinus(DoubleOf(1), vatMultiplier))

\* grossAmount / (1 + vatMultiplier)
NetOfGrossDouble(grossAmount, vatMultiplier) ==
  DoubleDiv(grossAmount, DoublePlus(DoubleOf(1), vatMultiplier))

\* VAT_RATE as the double the program holds
VatRateDouble == ToDouble(VAT_RATE)

\* vatRate / 100
VatMultiplierDouble == DoubleDiv(VatRateDouble, DoubleOf(100))

\* calculateVAT on doubles
calculateVATDouble(in) ==
  LET vatRate       == VatRateDouble
      vatMultiplier == VatMultiplierDouble
  IN  IF in.calculationType = "exclusive"
      THEN LET netAmount   == in.amount
               vatAmount   == DoubleTimes(netAmount, vatMultiplier)
               grossAmount == DoublePlus(netAmount, vatAmount)
           IN  [originalAmount  |-> in.amount,
                vatRate         |-> vatRate,
                vatAmount       |-> vatAmount,
                netAmount       |-> netAmount,
                grossAmount     |-> grossAmount,
                calculationType |-> "exclusive"]
      ELSE LET grossAmount == in.amount
               netAmount   == NetOfGrossDouble(grossAmount, vatMultiplier)
               vatAmount   == DoubleMinus(grossAmount, netAmount)
           IN  [originalAmount  |-> in.amount,
                vatRate         |-> vatRate,
                vatAmount       |-> vatAmount,
                netAmount       |-> netAmount,
                grossAmount     |-> grossAmount,
                calculationType |-> "inclusive"]

-----------------------------------------------------------------------------
(* The calls                                                               *)

MaxIncomes == 2

MaxDeductions == 2

\* all sequences over S of length at most n
SeqUpTo(S, n) == UNION { [1..k -> S] : k \in 0..n }

\* taxable amounts handed to calculateProgressiveTax: the bracket limits,
\* their neighbours, and 800,000.5, which lies between two brackets' limits
TaxableAmounts ==
  { N(0), N(1), N(500000), N(800000), <<800000, 1, 2>>, N(800001), N(1000000),
    N(1500000), N(3000000), N(3000001), N(12000000), N(12000001), N(25000000),
    N(25000001), N(50000000), N(50000001), N(60000000) }

IncomeEntries ==
  { [type |-> "salary", amount |-> N(800000)],
    [type |-> "salary", amount |-> N(800001)],
    [type |-> "bonus",  amount |-> N(200000)],
    [type |-> "rental", amount |-> N(30000000)] }

\* "gift" is not a deduction type of the configuration
DeductionEntries ==
  { [type |-> "rent_relief", amount |-> N(600000)],
    [type |-> "job_loss",    amount |-> N(55000000)],
    [type |-> "pension",     amount |-> N(100000)],
    [type |-> "nhis",        amount |-> N(200000)],
    [type |-> "gift",        amount |-> N(900000)] }

ProgressiveTaxCalls ==
  { [fn |-> "calculateProgressiveTax", taxableIncome |-> a] : a \in TaxableAmounts }

PITCalls ==
  { [fn |-> "calculatePIT", incomeSources |-> i, deductions |-> d, isResident |-> r] :
      i \in SeqUpTo(IncomeEntries, MaxIncomes),
      d \in SeqUpTo(DeductionEntries, MaxDeductions),
      r \in BOOLEAN }

GrossIncomes == { N(0), N(200000), N(1000000), N(1000001), N(60000000) }

DeductionsCalls ==
  { [fn |-> "calculateDeductions", deductions |-> d, grossIncome |-> g] :
      d \in SeqUpTo(DeductionEntries, MaxDeductions), g \in GrossIncomes }

\* the optional properties of a CGTInput: each absent or one of its values
CGTOptions ==
  { i @@ t @@ o @@ c :
      i \in { <<>>, [improvementCosts |-> N(0)], [improvementCosts |-> N(200000)] },
      t \in { <<>>, [transferCosts |-> N(100000)] },
      o \in { <<>>, [isOffshoreTransfer |-> TRUE], [isOffshoreTransfer |-> FALSE] },
      c \in { <<>>, [companyTurnover |-> N(50000000)],
                    [companyTurnover |-> SMALL_COMPANY_TURNOVER_LIMIT],
                    [companyTurnover |-> N(100000001)] } }

CGTInputs ==
  { [taxpayerType |-> t, saleProceeds |-> s, acquisitionCost |-> a] @@ o :
      t \in { "individual", "company" },
      s \in { N(0), N(1000000), N(2000000), N(2000001), N(60000000) },
      a \in { N(0), N(500000), N(1200000), N(3000000) },
      o \in CGTOptions }

CGTCalls == { [fn |-> "calculateCGT", in |-> i] : i \in CGTInputs }

\* the optional properties of a CITInput: each absent or one of its values
CITOptions ==
  { f @@ d :
      f \in { <<>>, [foreignProfits |-> N(0)], [foreignProfits |-> N(5000000)],
                    [foreignProfits |-> N(10000000)] },
      d \in { <<>>, [distributedForeignProfits |-> N(2000000)],
                    [distributedForeignProfits |-> N(5000000)],
                    [distributedForeignProfits |-> N(12000000)] } }

CITInputs ==
  { [turnover |-> t, assessableProfits |-> p, companyType |-> c,
     isMultinationalSubject |-> m] @@ o :
      t \in { N(0), N(50000000), SMALL_COMPANY_TURNOVER_LIMIT, N(100000001), N(200000000) },
      p \in { N(0), N(1), N(10000000), N(20000000) },
      c \in { "domestic", "multinational" },
      m \in BOOLEAN,
      o \in CITOptions }

CITCalls == { [fn |-> "calculateCIT", in |-> i] : i \in CITInputs }

\* current taxes below, at and above 15% of the profits of 10,000,000
MinimumTaxTopUpCalls ==
  { [fn |-> "calculateMinimumTaxTopUp", assessableProfits |-> p, currentTax |-> c,
     isSubjectToMETR |-> m] :
      p \in { N(0), N(1), N(10000000), N(20000000) },
      c \in { N(0), Frac(1, 10), N(1000000), N(1499999), N(1500000), N(1500001),
              N(3400000) },
      m \in BOOLEAN }

VATCalls ==
  { [fn |-> "calculateVAT", in |-> [amount |-> a, calculationType |-> c]] :
      a \in { N(0), N(1), N(43), N(1000), N(100000), N(107500), N(1000000) },
      c \in { "exclusive", "inclusive" } }

VATAmounts == { N(0), Frac(1, 2), N(50000), Frac(100001, 2), N(80000) }

BusinessVATCalls ==
  { [fn |-> "calculateBusinessVAT", in |-> [outputVAT |-> o, inputVAT |-> i]] :
      o \in VATAmounts, i \in VATAmounts }

Calls ==
  ProgressiveTaxCalls \cup DeductionsCalls \cup PITCalls \cup CGTCalls
  \cup CITCalls \cup MinimumTaxTopUpCalls \cup VATCalls \cup BusinessVATCalls

Init ==
  /\ pc = "call"
  /\ input \in Calls
  /\ result = <<>>
  /\ AuthIdle /\ RemindersIdle /\ SubscriptionIdle

CallProgressiveTax ==
  /\ pc = "call"
  /\ input.fn = "calculateProgressiveTax"
  /\ result' = calculateProgressiveTax(input.taxableIncome)
  /\ pc' = "done"
  /\ UNCHANGED <<input, authVars, reminderVars, subscriptionVars>>

CallDeductions ==
  /\ pc = "call"
  /\ input.fn = "calculateDeductions"
  /\ result' = calculateDeductions(input.deductions, input.grossIncome)
  /\ pc' = "done"
  /\ UNCHANGED <<input, authVars, reminderVars, subscriptionVars>>

CallPIT ==
  /\ pc = "call"
  /\ input.fn = "calculatePIT"
  /\ result' = calculatePIT(input.incomeSources, input.deductions, input.isResident)
  /\ pc' = "done"
  /\ UNCHANGED <<input, authVars, reminderVars, subscriptionVars>>

CallCGT ==
  /\ pc = "call"
  /\ input.fn = "calculateCGT"
  /\ result' = calculateCGT(input.in)
  /\ pc' = "done"
  /\ UNCHANGED <<input, authVars, reminderVars, subscriptionVars>>

CallCIT ==
  /\ pc = "call"
  /\ input.fn = "calculateCIT"
  /\ result' = calculateCIT(input.in)
  /\ pc' = "done"
  /\ UNCHANGED <<input, authVars, reminderVars, subscriptionVars>>

\* the top-up on its own; the function returns a number
CallMinimumTaxTopUp ==
  /\ pc = "call"
  /\ input.fn = "calculateMinimumTaxTopUp"
  /\ result' = calculateMinimumTaxTopUp(input.assessableProfits, input.currentTax,
                                        input.isSubjectToMETR)
  /\ pc' = "done"
  /\ UNCHANGED <<input, authVars, reminderVars, subscriptionVars>>

CallVAT ==
  /\ pc = "call"
  /\ input.fn = "calculateVAT"
  /\ result' = calculateVAT(input.in)
  /\ pc' = "done"
  /\ UNCHANGED <<input, authVars, reminderVars, subscriptionVars>>

CallBusinessVAT ==
  /\ pc = "call"
  /\ input.fn = "calculateBusinessVAT"
  /\ result' = calculateBusinessVAT(input.in)
  /\ pc' = "done"
  /\ UNCHANGED <<input, authVars, reminderVars, subscriptionVars>>

Next ==
  \/ CallProgressiveTax
  \/ CallDeductions
  \/ CallPIT
  \/ CallCGT
  \/ CallCIT
  \/ CallMinimumTaxTopUp
  \/ CallVAT
  \/ CallBusinessVAT

Spec == Init /\ [][Next]_vars

-----------------------------------------------------------------------------
(* The round trip of a price through calculateVAT                          *)

\* the double of the number literal millions * 1,000,000 + rest
DoubleOfLiteral(millions, rest) ==
  RoundDouble(AddNat(MulNat(NatOf(millions), NatOf(1000000)), NatOf(rest)), 0, FALSE)

\* net amounts in naira: small ones, ones from 2^32 up to 2^33, 2^33 and
\* larger ones
NairaAmounts ==
  { DoubleOfLiteral(a[1], a[2]) :
      a \in { <<0, 0>>, <<0, 1>>, <<0, 43>>, <<0, 1000>>, <<0, 107500>>, <<1, 0>>,
              <<123, 456789>>, <<1909, 632883>>, <<2147, 483648>>,
              <<3774, 703582>>, <<4294, 967296>>, <<4294, 967301>>,
              <<4941, 859909>>, <<5301, 411123>>, <<6542, 013488>>,
              <<6888, 784125>>, <<7891, 869609>>, <<8012, 378464>>,
              <<8589, 934591>>, <<8589, 934592>>, <<8589, 934596>>,
              <<9000, 000001>>, <<10000, 000001>>, <<100000, 000003>>,
              <<437566, 169144>>, <<480697, 458526>>, <<874945, 523849>>,
              <<999999, 999999>>, <<1000000, 000002>> } }

\* net amounts with kobo: the literal in kobo by 100 is the double of the
\* literal in naira, both being the double nearest to the same number
KoboAmounts ==
  { DoubleDiv(DoubleOfLiteral(a[1], a[2]), DoubleOf(100)) :
      a \in { <<0, 1>>, <<0, 10>>, <<0, 4999>>, <<0, 123456>>, <<99999, 999999>>,
              <<429496, 729601>>, <<572162, 602204>>, <<658422, 893967>>,
              <<700000, 000033>>, <<856571, 792842>>, <<858993, 459199>>,
              <<858993, 459201>>, <<12345678, 901234>> } }

RoundTripCalls ==
  { [fn |-> "calculateVAT", amount |-> a] : a \in NairaAmounts \cup KoboAmounts }

\* result is the sequence of the results of the calls made so far
RoundTripInit ==
  /\ pc = "call"
  /\ input \in RoundTripCalls
  /\ result = <<>>
  /\ AuthIdle /\ RemindersIdle /\ SubscriptionIdle

\* calculateVAT of the net amount, exclusive
CallVATExclusive ==
  /\ pc = "call"
  /\ result' = <<calculateVATDouble([amount |-> input.amount,
                                     calculationType |-> "exclusive"])>>
  /\ pc' = "inclusive"
  /\ UNCHANGED <<input, authVars, reminderVars, subscriptionVars>>

\* calculateVAT of the grossAmount of the first result, inclusive
CallVATInclusive ==
  /\ pc = "inclusive"
  /\ result' = Append(result,
                      calculateVATDouble([amount |-> result[1].grossAmount,
                                          calculationType |-> "inclusive"]))
  /\ pc' = "done"
  /\ UNCHANGED <<input, authVars, reminderVars, subscriptionVars>>

RoundTripNext ==
  \/ CallVATExclusive
  \/ CallVATInclusive

RoundTripSpec == RoundTripInit /\ [][RoundTripNext]_vars

-----------------------------------------------------------------------------
(* The login rate limit of authService                                     *)

\* null, where the other values are strings
None == "null"

MAX_ATTEMPTS == 5

LOCKOUT_DURATION == 15 * 60 * 1000

\* the emails typed into the form; the first two differ in case alone
Emails == { "Ade@x.ng", "ade@x.ng", "bola@x.ng" }

\* String.toLowerCase on Emails
toLowerCase(email) == IF email = "Ade@x.ng" THEN "ade@x.ng" ELSE email

\* new Map()
EmptyMap == [k \in {} |-> None]

\* Map.delete
MapDelete(m, key) == [k \in DOMAIN m \ {key} |-> m[k]]

\* Map.set
MapSet(m, key, value) ==
  [k \in DOMAIN m \cup {key} |-> IF k = key THEN value ELSE m[k]]

\* mutant: > for >=, so that the sixth call is the first one rejected
checkRateLimitOffByOne(attempts, email, t) ==
  LET key == toLowerCase(email)
  IN  IF key \notin DOMAIN attempts
      THEN [allowed |-> TRUE, waitTime |-> 0, loginAttempts |-> attempts]
      ELSE IF t - attempts[key].lastAttempt > LOCKOUT_DURATION
      THEN [allowed |-> TRUE, waitTime |-> 0, loginAttempts |-> MapDelete(attempts, key)]
      ELSE IF attempts[key].count > MAX_ATTEMPTS
      THEN [allowed       |-> FALSE,
            waitTime      |-> LOCKOUT_DURATION - (t - attempts[key].lastAttempt),
            loginAttempts |-> attempts]
      ELSE [allowed |-> TRUE, waitTime |-> 0, loginAttempts |-> attempts]

\* checkRateLimit at the time t: what it returns, and the map it leaves
checkRateLimit(attempts, email, t) ==
  LET key == toLowerCase(email)
  IN  IF key \notin DOMAIN attempts
      THEN [allowed |-> TRUE, waitTime |-> 0, loginAttempts |-> attempts]
      ELSE IF t - attempts[key].lastAttempt > LOCKOUT_DURATION
      THEN [allowed |-> TRUE, waitTime |-> 0, loginAttempts |-> MapDelete(attempts, key)]
      ELSE IF attempts[key].count >= MAX_ATTEMPTS
      THEN [allowed       |-> FALSE,
            waitTime      |-> LOCKOUT_DURATION - (t - attempts[key].lastAttempt),
            loginAttempts |-> attempts]
      ELSE [allowed |-> TRUE, waitTime |-> 0, loginAttempts |-> attempts]

\* recordLoginAttempt at the time t: the map it leaves
recordLoginAttempt(attempts, email, success, t) ==
  LET key == toLowerCase(email)
  IN  IF success THEN MapDelete(attempts, key)
      ELSE IF key \in DOMAIN attempts
      THEN [attempts EXCEPT ![key] = [count |-> @.count + 1, lastAttempt |-> t]]
      ELSE MapSet(attempts, key, [count |-> 1, lastAttempt |-> t])

-----------------------------------------------------------------------------
(* AuthProvider                                                            *)

\* the highest count of attempts a call of login starts with
MaxCount == 6

\* the clock stops here
MaxNow == 1400000

\* the clicks on protected buttons
MaxClicks == 2

\* the steps of the clock: half the lockout, and 1 ms more than the lockout
Delays == { LOCKOUT_DURATION \div 2, LOCKOUT_DURATION + 1 }

\* the user of the mock Google sign-in
GoogleUser == "user@gmail.com"

\* the features of the protected buttons
Features == { "save_calculation", "download_pdf" }

\* the state a successful sign-in sets
SignedIn(user) ==
  [user |-> user, isAuthenticated |-> TRUE, isLoading |-> FALSE, error |-> None]

\* the state logout sets
SignedOut ==
  [user |-> None, isAuthenticated |-> FALSE, isLoading |-> FALSE, error |-> None]

\* the state a method's catch block sets
Failed(prev, message) == [prev EXCEPT !.isLoading = FALSE, !.error = message]

\* the callback of onAuthStateChange
AuthStateChanged(prev, user) ==
  [prev EXCEPT !.user = user, !.isAuthenticated = (user # None), !.isLoading = FALSE]

\* clearError
clearError(prev) == [prev EXCEPT !.error = None]

\* the handler of onAuthStateChange starts to fetch the profile of the
\* session's user, when Supabase is configured
SignedInEvent(user) == IF configured THEN handlers \cup {user} ELSE handlers

AuthInit ==
  /\ authState = [user |-> None, isAuthenticated |-> FALSE, isLoading |-> TRUE,
                  error |-> None]
  /\ pendingAction = <<>>
  /\ showAuthModal = FALSE
  /\ authModalMode = "login"
  /\ loginAttempts = EmptyMap
  /\ now = 0
  /\ session \in { None, "bola@x.ng" }
  /\ configured \in BOOLEAN
  /\ calls = [initAuth |-> "getSession", login |-> "idle", signup |-> "idle",
              google |-> "idle", logout |-> "idle"]
  /\ handlers = {}
  /\ clicks = 0
  /\ ran = [id \in {} |-> 0]
  /\ returned = "none"
  /\ CalcIdle /\ RemindersIdle /\ SubscriptionIdle

\* what no step of the AuthProvider changes
AuthFrame == UNCHANGED <<configured, calcVars, reminderVars, subscriptionVars>>

\* initAuth: getCurrentSession has returned
initAuthReturns ==
  /\ calls.initAuth = "getSession"
  /\ authState' = [user |-> session, isAuthenticated |-> (session # None),
                   isLoading |-> FALSE, error |-> None]
  /\ calls' = [calls EXCEPT !.initAuth = "done"]
  /\ UNCHANGED <<pendingAction, showAuthModal, authModalMode, loginAttempts, now,
                 session, handlers, clicks, ran, returned>>
  /\ AuthFrame

\* initAuth: getCurrentSession has thrown
initAuthFails ==
  /\ calls.initAuth = "getSession"
  /\ authState' = SignedOut
  /\ calls' = [calls EXCEPT !.initAuth = "done"]
  /\ UNCHANGED <<pendingAction, showAuthModal, authModalMode, loginAttempts, now,
                 session, handlers, clicks, ran, returned>>
  /\ AuthFrame

\* Date.now() moves on
Tick(delay) ==
  /\ now + delay <= MaxNow
  /\ now' = now + delay
  /\ UNCHANGED <<authState, pendingAction, showAuthModal, authModalMode,
                 loginAttempts, session, calls, handlers, clicks, ran, returned>>
  /\ AuthFrame

\* UserMenu: Sign In and Sign Up open the modal; AuthModal clears the error
\* when the mode changes
openAuthModal(mode) ==
  /\ ~authState.isLoading
  /\ ~authState.isAuthenticated \/ authState.user = None
  /\ ~showAuthModal
  /\ authModalMode' = mode
  /\ showAuthModal' = TRUE
  /\ authState' = IF mode # authModalMode THEN clearError(authState) ELSE authState
  /\ UNCHANGED <<pendingAction, loginAttempts, now, session, calls, handlers,
                 clicks, ran, returned>>
  /\ AuthFrame

\* AuthModal: the backdrop and the close button; AuthModal clears the error
\* when the modal closes
closeAuthModal ==
  /\ showAuthModal
  /\ showAuthModal' = FALSE
  /\ authState' = clearError(authState)
  /\ UNCHANGED <<pendingAction, authModalMode, loginAttempts, now, session, calls,
                 handlers, clicks, ran, returned>>
  /\ AuthFrame

\* the form of AuthModal in login mode calls login: the rate limit is
\* checked, and a call that is not allowed fails at once
login(email) ==
  /\ showAuthModal /\ authModalMode = "login" /\ ~authState.isLoading
  /\ calls.login = "idle"
  /\ toLowerCase(email) \in DOMAIN loginAttempts
       => loginAttempts[toLowerCase(email)].count <= MaxCount
  /\ LET check == checkRateLimit(loginAttempts, email, now)
     IN  IF ~check.allowed
         THEN /\ loginAttempts' =
                   recordLoginAttempt(check.loginAttempts, email, FALSE, now)
              /\ authState' = Failed(authState, "Too many login attempts")
              /\ UNCHANGED calls
         ELSE /\ loginAttempts' = check.loginAttempts
              /\ authState' = [authState EXCEPT !.isLoading = TRUE, !.error = None]
              /\ calls' = [calls EXCEPT !.login = email]
  /\ UNCHANGED <<pendingAction, showAuthModal, authModalMode, now, session,
                 handlers, clicks, ran, returned>>
  /\ AuthFrame

\* login: signInWithEmail has returned the user
loginSignedIn ==
  /\ calls.login # "idle"
  /\ LET user == toLowerCase(calls.login)
     IN  /\ loginAttempts' = recordLoginAttempt(loginAttempts, calls.login, TRUE, now)
         /\ authState' = SignedIn(user)
         /\ session' = user
         /\ handlers' = SignedInEvent(user)
  /\ showAuthModal' = FALSE
  /\ calls' = [calls EXCEPT !.login = "idle"]
  /\ UNCHANGED <<pendingAction, authModalMode, now, clicks, ran, returned>>
  /\ AuthFrame

\* login: signInWithEmail has thrown
loginFails ==
  /\ calls.login # "idle"
  /\ loginAttempts' = recordLoginAttempt(loginAttempts, calls.login, FALSE, now)
  /\ authState' = Failed(authState, "Invalid email or password")
  /\ calls' = [calls EXCEPT !.login = "idle"]
  /\ UNCHANGED <<pendingAction, showAuthModal, authModalMode, now, session,
                 handlers, clicks, ran, returned>>
  /\ AuthFrame

\* the form of AuthModal in signup mode calls signup
signup(email) ==
  /\ showAuthModal /\ authModalMode = "signup" /\ ~authState.isLoading
  /\ calls.signup = "idle"
  /\ authState' = [authState EXCEPT !.isLoading = TRUE, !.error = None]
  /\ calls' = [calls EXCEPT !.signup = email]
  /\ UNCHANGED <<pendingAction, showAuthModal, authModalMode, loginAttempts, now,
                 session, handlers, clicks, ran, returned>>
  /\ AuthFrame

\* signup: signUpWithEmail has returned the user
signupSignedUp ==
  /\ calls.signup # "idle"
  /\ LET user == toLowerCase(calls.signup)
     IN  /\ authState' = SignedIn(user)
         /\ session' = user
         /\ handlers' = SignedInEvent(user)
  /\ showAuthModal' = FALSE
  /\ calls' = [calls EXCEPT !.signup = "idle"]
  /\ UNCHANGED <<pendingAction, authModalMode, loginAttempts, now, clicks, ran,
                 returned>>
  /\ AuthFrame

\* signup: signUpWithEmail has thrown
signupFails ==
  /\ calls.signup # "idle"
  /\ authState' = Failed(authState, "Signup failed")
  /\ calls' = [calls EXCEPT !.signup = "idle"]
  /\ UNCHANGED <<pendingAction, showAuthModal, authModalMode, loginAttempts, now,
                 session, handlers, clicks, ran, returned>>
  /\ AuthFrame

\* the Google button of AuthModal calls loginWithGoogle
loginWithGoogle ==
  /\ showAuthModal /\ ~authState.isLoading
  /\ calls.google = "idle"
  /\ authState' = [authState EXCEPT !.isLoading = TRUE, !.error = None]
  /\ calls' = [calls EXCEPT !.google = "signInWithGoogle"]
  /\ UNCHANGED <<pendingAction, showAuthModal, authModalMode, loginAttempts, now,
                 session, handlers, clicks, ran, returned>>
  /\ AuthFrame

\* loginWithGoogle: signInWithGoogle has returned; the mock has stored its
\* session, Supabase has only started the redirect to Google
googleSignInReturns ==
  /\ calls.google = "signInWithGoogle"
  /\ session' = IF configured THEN session ELSE GoogleUser
  /\ calls' = [calls EXCEPT !.google = "getCurrentSession"]
  /\ UNCHANGED <<authState, pendingAction, showAuthModal, authModalMode,
                 loginAttempts, now, handlers, clicks, ran, returned>>
  /\ AuthFrame

\* loginWithGoogle: signInWithGoogle has thrown
googleSignInFails ==
  /\ calls.google = "signInWithGoogle"
  /\ configured
  /\ authState' = Failed(authState, "Google login failed")
  /\ calls' = [calls EXCEPT !.google = "idle"]
  /\ UNCHANGED <<pendingAction, showAuthModal, authModalMode, loginAttempts, now,
                 session, handlers, clicks, ran, returned>>
  /\ AuthFrame

\* loginWithGoogle: getCurrentSession has returned; without a user nothing
\* is set
googleGetSessionReturns ==
  /\ calls.google = "getCurrentSession"
  /\ IF session # None
     THEN authState' = SignedIn(session) /\ showAuthModal' = FALSE
     ELSE UNCHANGED <<authState, showAuthModal>>
  /\ calls' = [calls EXCEPT !.google = "idle"]
  /\ UNCHANGED <<pendingAction, authModalMode, loginAttempts, now, session,
                 handlers, clicks, ran, returned>>
  /\ AuthFrame

\* UserMenu calls logout
logout ==
  /\ ~authState.isLoading /\ authState.isAuthenticated /\ authState.user # None
  /\ calls.logout = "idle"
  /\ authState' = [authState EXCEPT !.isLoading = TRUE]
  /\ calls' = [calls EXCEPT !.logout = "signOut"]
  /\ UNCHANGED <<pendingAction, showAuthModal, authModalMode, loginAttempts, now,
                 session, handlers, clicks, ran, returned>>
  /\ AuthFrame

\* logout: signOut has returned (the SIGNED_OUT event sets the same user)
logoutSignedOut ==
  /\ calls.logout = "signOut"
  /\ session' = None
  /\ authState' = SignedOut
  /\ pendingAction' = <<>>
  /\ calls' = [calls EXCEPT !.logout = "idle"]
  /\ UNCHANGED <<showAuthModal, authModalMode, loginAttempts, now, handlers,
                 clicks, ran, returned>>
  /\ AuthFrame

\* logout: signOut has thrown
logoutFails ==
  /\ calls.logout = "signOut"
  /\ authState' = Failed(authState, "Logout failed")
  /\ calls' = [calls EXCEPT !.logout = "idle"]
  /\ UNCHANGED <<pendingAction, showAuthModal, authModalMode, loginAttempts, now,
                 session, handlers, clicks, ran, returned>>
  /\ AuthFrame

\* Supabase reports the session once more (TOKEN_REFRESHED, SIGNED_IN): the
\* handler of onAuthStateChange starts to fetch the profile
sessionEvent ==
  /\ configured /\ session # None /\ session \notin handlers
  /\ handlers' = handlers \cup {session}
  /\ UNCHANGED <<authState, pendingAction, showAuthModal, authModalMode,
                 loginAttempts, now, session, calls, clicks, ran, returned>>
  /\ AuthFrame

\* the session ends elsewhere (SIGNED_OUT): the handler calls back at once
signedOutEvent ==
  /\ configured /\ session # None
  /\ session' = None
  /\ authState' = AuthStateChanged(authState, None)
  /\ UNCHANGED <<pendingAction, showAuthModal, authModalMode, loginAttempts, now,
                 calls, handlers, clicks, ran, returned>>
  /\ AuthFrame

\* a handler of onAuthStateChange has fetched the profile and calls back
profileFetched(user) ==
  /\ user \in handlers
  /\ handlers' = handlers \ {user}
  /\ authState' = AuthStateChanged(authState, user)
  /\ UNCHANGED <<pendingAction, showAuthModal, authModalMode, loginAttempts, now,
                 session, calls, clicks, ran, returned>>
  /\ AuthFrame

\* mutant: the action is stored whether or not the user is authenticated
requireAuthAlwaysStores(feature, action) ==
  /\ returned' = IF authState.isAuthenticated THEN "true" ELSE "false"
  /\ pendingAction' = << [feature |-> feature, pendingAction |-> action] >>
  /\ IF authState.isAuthenticated
     THEN UNCHANGED <<authState, showAuthModal, authModalMode>>
     ELSE /\ authModalMode' = "login"
          /\ showAuthModal' = TRUE
          /\ authState' = IF authModalMode # "login" THEN clearError(authState)
                          ELSE authState

\* requireAuth(feature, action): what it returns and the state it sets
requireAuth(feature, action) ==
  IF authState.isAuthenticated
  THEN /\ returned' = "true"
       /\ UNCHANGED <<authState, pendingAction, showAuthModal, authModalMode>>
  ELSE /\ returned' = "false"
       /\ pendingAction' = << [feature |-> feature, pendingAction |-> action] >>
       /\ authModalMode' = "login"
       /\ showAuthModal' = TRUE
       /\ authState' = IF authModalMode # "login" THEN clearError(authState)
                       ELSE authState

\* a click on a ProtectedButton: onClick runs if requireAuth returns true;
\* the click's number stands for its onClick
handleClick(feature) ==
  /\ clicks < MaxClicks
  /\ clicks' = clicks + 1
  /\ requireAuth(feature, clicks + 1)
  /\ ran' = IF authState.isAuthenticated THEN MapSet(ran, clicks + 1, 1)
            ELSE MapSet(ran, clicks + 1, 0)
  /\ UNCHANGED <<loginAttempts, now, session, calls, handlers>>
  /\ AuthFrame

\* the effect that runs the pending action: executePendingAction
executePendingAction ==
  /\ authState.isAuthenticated
  /\ pendingAction # <<>>
  /\ ran' = [ran EXCEPT ![pendingAction[1].pendingAction] = @ + 1]
  /\ pendingAction' = <<>>
  /\ UNCHANGED <<authState, showAuthModal, authModalMode, loginAttempts, now,
                 session, calls, handlers, clicks, returned>>
  /\ AuthFrame

\* the emails of the sign-in and sign-up forms, where the clock stands still
AuthEmails == { "bola@x.ng" }

AuthNext ==
  \/ initAuthReturns
  \/ initAuthFails
  \/ \E mode \in { "login", "signup" } : openAuthModal(mode)
  \/ closeAuthModal
  \/ \E email \in AuthEmails : login(email)
  \/ loginSignedIn
  \/ loginFails
  \/ \E email \in AuthEmails : signup(email)
  \/ signupSignedUp
  \/ signupFails
  \/ loginWithGoogle
  \/ googleSignInReturns
  \/ googleSignInFails
  \/ googleGetSessionReturns
  \/ logout
  \/ logoutSignedOut
  \/ logoutFails
  \/ sessionEvent
  \/ signedOutEvent
  \/ \E user \in handlers : profileFetched(user)
  \/ \E feature \in Features : handleClick(feature)
  \/ executePendingAction

\* the AuthProvider, its modal and its protected buttons, at one time
AuthSpec == AuthInit /\ [][AuthNext]_vars

\* the demo mode, with no session kept from an earlier visit
RateLimitInit == AuthInit /\ ~configured /\ session = None

RateLimitNext ==
  \/ initAuthReturns
  \/ \E delay \in Delays : Tick(delay)
  \/ openAuthModal("login")
  \/ \E email \in Emails : login(email)
  \/ loginSignedIn
  \/ loginFails
  \/ logout
  \/ logoutSignedOut

\* the calls of login as time passes
RateLimitSpec == RateLimitInit /\ [][RateLimitNext]_vars

-----------------------------------------------------------------------------
(* The scheduled function send-reminders                                   *)

\* the last day of the calendar
MaxDay == 2

\* the runs of one invocation slot
MaxRuns == 1

\* two invocations of the function can be under way at once
Slots == { 1, 2 }

ReminderIds == { 1, 2 }

\* the due dates of the reminders, as days of the calendar
DueDates == { 1, 7 }

UpdateFields == { "reminder_7_days_sent", "reminder_1_day_sent", "reminder_due_sent" }

\* getDaysUntilDue on the given day
getDaysUntilDue(due_date, day) == due_date - day

\* the updateField of the reminder to send, null if shouldSend stays false
WhichReminder(reminder, daysUntil) ==
  IF daysUntil = 7 /\ ~reminder.reminder_7_days_sent THEN "reminder_7_days_sent"
  ELSE IF daysUntil = 1 /\ ~reminder.reminder_1_day_sent THEN "reminder_1_day_sent"
  ELSE IF daysUntil = 0 /\ ~reminder.reminder_due_sent THEN "reminder_due_sent"
  ELSE None

\* the rows with is_active = true, in the order of their ids
RECURSIVE ActiveReminders(_, _)
ActiveReminders(table, ids) ==
  IF ids = {} THEN <<>>
  ELSE LET id == CHOOSE i \in ids : \A j \in ids : i <= j
           rest == ActiveReminders(table, ids \ {id})
       IN  IF table[id].is_active THEN <<table[id]>> \o rest ELSE rest

IdleRun ==
  [pc |-> "idle", n |-> 0, reminders |-> <<>>, i |-> 0, updateField |-> None,
   statusCode |-> 0]

RemindersInit ==
  /\ filing_reminders \in
       [ReminderIds -> { [id |-> id, due_date |-> due, is_active |-> TRUE,
                          reminder_7_days_sent |-> FALSE,
                          reminder_1_day_sent  |-> FALSE,
                          reminder_due_sent    |-> FALSE] :
                         id \in ReminderIds, due \in DueDates }]
  /\ \A id \in ReminderIds : filing_reminders[id].id = id
  /\ today = 0
  /\ runs = [slot \in Slots |-> IdleRun]
  /\ emails = [id \in ReminderIds |-> [field \in UpdateFields |-> 0]]
  /\ CalcIdle /\ AuthIdle /\ SubscriptionIdle

\* what no step of the function changes
RemindersFrame == UNCHANGED <<calcVars, authVars, subscriptionVars>>

\* midnight passes
nextDay ==
  /\ today < MaxDay
  /\ today' = today + 1
  /\ UNCHANGED <<filing_reminders, runs, emails>>
  /\ RemindersFrame

\* the user pauses or activates a reminder
toggleReminderActive(id) ==
  /\ filing_reminders' = [filing_reminders EXCEPT ![id].is_active = ~@]
  /\ UNCHANGED <<today, runs, emails>>
  /\ RemindersFrame

\* the handler is invoked: the method is checked
startRun(slot, httpMethod) ==
  /\ runs[slot].pc \in { "idle", "done" }
  /\ runs[slot].n < MaxRuns
  /\ runs' = [runs EXCEPT ![slot] =
       IF httpMethod # "POST" /\ httpMethod # "GET"
       THEN [IdleRun EXCEPT !.pc = "done", !.n = runs[slot].n + 1, !.statusCode = 405]
       ELSE [IdleRun EXCEPT !.pc = "fetch", !.n = runs[slot].n + 1]]
  /\ UNCHANGED <<filing_reminders, today, emails>>
  /\ RemindersFrame

\* the active reminders have been fetched
fetchReminders(slot) ==
  /\ runs[slot].pc = "fetch"
  /\ runs' = [runs EXCEPT ![slot].pc = "loop",
                          ![slot].reminders = ActiveReminders(filing_reminders, ReminderIds),
                          ![slot].i = 1]
  /\ UNCHANGED <<filing_reminders, today, emails>>
  /\ RemindersFrame

\* the fetch has failed: the handler answers 500
fetchFails(slot) ==
  /\ runs[slot].pc = "fetch"
  /\ runs' = [runs EXCEPT ![slot].pc = "done", ![slot].statusCode = 500]
  /\ UNCHANGED <<filing_reminders, today, emails>>
  /\ RemindersFrame

\* one turn of the loop, up to its first await
checkReminder(slot) ==
  /\ runs[slot].pc = "loop"
  /\ runs[slot].i <= Len(runs[slot].reminders)
  /\ LET reminder == runs[slot].reminders[runs[slot].i]
         updateField == WhichReminder(reminder, getDaysUntilDue(reminder.due_date, today))
     IN  runs' = IF updateField = None
                 THEN [runs EXCEPT ![slot].i = @ + 1]
                 ELSE [runs EXCEPT ![slot].pc = "send", ![slot].updateField = updateField]
  /\ UNCHANGED <<filing_reminders, today, emails>>
  /\ RemindersFrame

\* the profile has been fetched and sendEmail has returned true
sendReminder(slot) ==
  /\ runs[slot].pc = "send"
  /\ LET id == runs[slot].reminders[runs[slot].i].id
     IN  emails' = [emails EXCEPT ![id][runs[slot].updateField] = @ + 1]
  /\ runs' = [runs EXCEPT ![slot].pc = "update"]
  /\ UNCHANGED <<filing_reminders, today>>
  /\ RemindersFrame

\* the update of the row has been applied
updateSent(slot) ==
  /\ runs[slot].pc = "update"
  /\ LET id == runs[slot].reminders[runs[slot].i].id
     IN  filing_reminders' =
           [filing_reminders EXCEPT ![id][runs[slot].updateField] = TRUE]
  /\ runs' = [runs EXCEPT ![slot].pc = "loop", ![slot].i = @ + 1,
                          ![slot].updateField = None]
  /\ UNCHANGED <<today, emails>>
  /\ RemindersFrame

\* the update has returned an error, which the handler does not look at
updateFails(slot) ==
  /\ runs[slot].pc = "update"
  /\ runs' = [runs EXCEPT ![slot].pc = "loop", ![slot].i = @ + 1,
                          ![slot].updateField = None]
  /\ UNCHANGED <<filing_reminders, today, emails>>
  /\ RemindersFrame

\* the loop has ended: the handler answers 200
finishRun(slot) ==
  /\ runs[slot].pc = "loop"
  /\ runs[slot].i > Len(runs[slot].reminders)
  /\ runs' = [runs EXCEPT ![slot].pc = "done", ![slot].statusCode = 200]
  /\ UNCHANGED <<filing_reminders, today, emails>>
  /\ RemindersFrame

RemindersNext ==
  \/ nextDay
  \/ \E id \in ReminderIds : toggleReminderActive(id)
  \/ \E slot \in Slots, httpMethod \in { "POST", "GET", "PUT" } :
       startRun(slot, httpMethod)
  \/ \E slot \in Slots : fetchReminders(slot)
  \/ \E slot \in Slots : fetchFails(slot)
  \/ \E slot \in Slots : checkReminder(slot)
  \/ \E slot \in Slots : sendReminder(slot)
  \/ \E slot \in Slots : updateSent(slot)
  \/ \E slot \in Slots : updateFails(slot)
  \/ \E slot \in Slots : finishRun(slot)

RemindersSpec == RemindersInit /\ [][RemindersNext]_vars

-----------------------------------------------------------------------------
(* The function update-subscription                                        *)

\* supabaseAdmin.auth.getUser: the id of the token's user, null for a token
\* that is not valid
getUser(token) ==
  IF token = "token-ade" THEN "ade"
  ELSE IF token = "token-bola" THEN "bola"
  ELSE None

\* the requests: the Authorization header is absent (scheme null) or holds a
\* scheme and a token; the body is absent, is not JSON, or is JSON
Events ==
  [httpMethod    : { "POST", "GET" },
   authorization : { [scheme |-> None, token |-> None],
                     [scheme |-> "Basic ", token |-> "token-ade"],
                     [scheme |-> "Bearer ", token |-> "token-ade"],
                     [scheme |-> "Bearer ", token |-> "token-bola"],
                     [scheme |-> "Bearer ", token |-> "expired"] },
   body          : { [kind |-> "absent", userId |-> None, plan |-> None],
                     [kind |-> "malformed", userId |-> None, plan |-> None] }
                   \cup [kind : {"json"}, userId : {"ade", "bola"},
                         plan : {"free", "pro"}]]

\* JSON.parse(event.body || '{}') throws
ParseThrows(body) == body.kind = "malformed"

\* mutant: the check of body.userId against user.id is left out
IsOwnSubscriptionUnchecked(body, user) == TRUE

\* body.userId !== user.id does not hold
IsOwnSubscription(body, user) == body.userId = user

SubscriptionInit ==
  /\ event \in Events
  /\ handlerPc = [pc |-> "idle", user |-> None]
  /\ response = 0
  /\ subscriptions = [user_id \in { "ade", "bola" } |->
                        [plan |-> "free", status |-> "expired"]]
  /\ CalcIdle /\ AuthIdle /\ RemindersIdle

\* what no step of the function changes
SubscriptionFrame == UNCHANGED <<calcVars, authVars, reminderVars>>

\* the handler is invoked: the method and the Authorization header are checked
invoke(ev) ==
  /\ handlerPc.pc \in { "idle", "done" }
  /\ handlerPc.pc = "idle" => ev = event
  /\ event' = ev
  /\ IF ev.httpMethod # "POST"
     THEN response' = 405 /\ handlerPc' = [pc |-> "done", user |-> None]
     ELSE IF ev.authorization.scheme # "Bearer "
     THEN response' = 401 /\ handlerPc' = [pc |-> "done", user |-> None]
     ELSE response' = 0 /\ handlerPc' = [pc |-> "getUser", user |-> None]
  /\ UNCHANGED subscriptions
  /\ SubscriptionFrame

\* getUser has returned: the token's user, the body and body.userId are checked
getUserReturns ==
  /\ handlerPc.pc = "getUser"
  /\ LET user == getUser(event.authorization.token)
     IN  IF user = None
         THEN response' = 401 /\ handlerPc' = [pc |-> "done", user |-> None]
         ELSE IF ParseThrows(event.body)
         THEN response' = 500 /\ handlerPc' = [pc |-> "done", user |-> user]
         ELSE IF ~IsOwnSubscription(event.body, user)
         THEN response' = 403 /\ handlerPc' = [pc |-> "done", user |-> user]
         ELSE response' = 0 /\ handlerPc' = [pc |-> "update", user |-> user]
  /\ UNCHANGED <<event, subscriptions>>
  /\ SubscriptionFrame

\* getUser has thrown
getUserThrows ==
  /\ handlerPc.pc = "getUser"
  /\ response' = 500
  /\ handlerPc' = [pc |-> "done", user |-> None]
  /\ UNCHANGED <<event, subscriptions>>
  /\ SubscriptionFrame

\* the row with user_id = body.userId has been updated
subscriptionUpdated ==
  /\ handlerPc.pc = "update"
  /\ subscriptions' = [subscriptions EXCEPT ![event.body.userId] =
                         [plan |-> event.body.plan, status |-> "active"]]
  /\ response' = 200
  /\ handlerPc' = [handlerPc EXCEPT !.pc = "done"]
  /\ UNCHANGED event
  /\ SubscriptionFrame

\* the update has returned an error
subscriptionUpdateFails ==
  /\ handlerPc.pc = "update"
  /\ response' = 500
  /\ handlerPc' = [handlerPc EXCEPT !.pc = "done"]
  /\ UNCHANGED <<event, subscriptions>>
  /\ SubscriptionFrame

SubscriptionNext ==
  \/ \E ev \in Events : invoke(ev)
  \/ getUserReturns
  \/ getUserThrows
  \/ subscriptionUpdated
  \/ subscriptionUpdateFails

SubscriptionSpec == SubscriptionInit /\ [][SubscriptionNext]_vars

-----------------------------------------------------------------------------
(* Properties                                                              *)

\* the call of fn has returned
Done(f) == pc = "done" /\ input.fn = f

\* the sum of the field of a sequence of records
RECURSIVE SumOf(_, _)
SumOf(seq, field) ==
  IF seq = <<>> THEN Zero
  ELSE Plus(SumOf(SubSeq(seq, 1, Len(seq) - 1), field), seq[Len(seq)][field])

\* C1: calculateProgressiveTax(A) lists the brackets of PIT_BRACKETS in
\* order; the zero-rate band takes min(A, 800,000) at zero tax, and every
\* later bracket takes min(remaining, max - min + 1) (the last one all that
\* remains) at taxableInBracket * rate / 100; the amounts taken add up to
\* A, and A = 1,000,000 gives a total tax of 30,000.
C1_BracketAllocation ==
  Done("calculateProgressiveTax") =>
    LET A  == input.taxableIncome
        bd == result.breakdown
        remaining(i) == Minus(A, SumOf(SubSeq(bd, 1, i - 1), "taxableInBracket"))
        capacity(i)  == IF i = Len(PIT_BRACKETS) THEN Infinity
                        ELSE Plus(Minus(PIT_BRACKETS[i].max, PIT_BRACKETS[i].min), N(1))
    IN  /\ Len(bd) = Len(PIT_BRACKETS)
        /\ \A i \in 1..Len(bd) : bd[i].bracket = PIT_BRACKETS[i]
        /\ bd[1].taxableInBracket = MathMin(A, N(800000))
        /\ bd[1].taxForBracket = Zero
        /\ \A i \in 2..Len(bd) :
             /\ bd[i].taxableInBracket = MathMin(remaining(i), capacity(i))
             /\ bd[i].taxForBracket =
                  Div(Times(bd[i].taxableInBracket, PIT_BRACKETS[i].rate), N(100))
        /\ SumOf(bd, "taxableInBracket") = A
        /\ (A = N(1000000) => result.totalTax = N(30000))

\* an amount that fills the 15% bracket exactly: 2,200,000 of 3,000,000
C1_Witness ==
  /\ Done("calculateProgressiveTax")
  /\ input.taxableIncome = N(3000000)
  /\ result.breakdown[2].taxableInBracket = N(2200000)
  /\ result.totalTax = N(330000)

\* C2: the total tax of calculateProgressiveTax, and of every result of
\* calculatePIT, is the sum of the taxForBracket of its breakdown.
C2_TotalIsSumOfBrackets ==
  /\ Done("calculateProgressiveTax") =>
       result.totalTax = SumOf(result.breakdown, "taxForBracket")
  /\ Done("calculatePIT") =>
       result.totalTax = SumOf(result.bracketBreakdown, "taxForBracket")

\* a result of calculatePIT taxed in four brackets, with a fraction of a naira
C2_Witness ==
  /\ Done("calculatePIT")
  /\ ~result.isExempt
  /\ Gt(result.bracketBreakdown[2].taxForBracket, Zero)
  /\ Gt(result.bracketBreakdown[5].taxForBracket, Zero)
  /\ result.totalTax[2] # 0

\* C3: calculateProgressiveTax is monotonic: a smaller taxable amount never
\* has a larger total tax.
C3_Monotonic ==
  Done("calculateProgressiveTax") =>
    \A a1 \in TaxableAmounts :
      (Le(a1, input.taxableIncome) /\ a1 # input.taxableIncome) =>
        Le(calculateProgressiveTax(a1).totalTax, result.totalTax)

\* 3,000,001 is taxed more than 3,000,000
C3_Witness ==
  /\ Done("calculateProgressiveTax")
  /\ input.taxableIncome = N(3000001)
  /\ Gt(result.totalTax, calculateProgressiveTax(N(3000000)).totalTax)

\* C4: a taxable income (calculatePIT) or a capital gain (calculateCGT of an
\* individual) of at most 800,000 has zero tax and isExempt = TRUE, one above
\* 800,000 has isExempt = FALSE, and the two thresholds are the same value.
C4_ExemptThreshold ==
  /\ Done("calculatePIT") =>
       IF Le(result.taxableIncome, N(800000))
       THEN result.totalTax = Zero /\ result.isExempt
       ELSE ~result.isExempt
  /\ (Done("calculateCGT") /\ input.in.taxpayerType = "individual") =>
       IF Le(result.capitalGain, N(800000))
       THEN result.cgtAmount = Zero /\ result.isExempt
       ELSE ~result.isExempt
  /\ exemptThreshold = PIT_EXEMPT_THRESHOLD

\* a taxable income of exactly 800,000, left by a deduction
C4_Witness ==
  /\ Done("calculatePIT")
  /\ result.taxableIncome = N(800000)
  /\ Gt(result.totalDeductions, Zero)
  /\ result.isExempt

\* the entries of a sequence of deductions that have the type
RECURSIVE OfType(_, _)
OfType(seq, type) ==
  IF seq = <<>> THEN <<>>
  ELSE (IF Head(seq).type = type THEN <<Head(seq)>> ELSE <<>>) \o OfType(Tail(seq), type)

\* C5: the deductions are capped by category: of any list, also one with
\* several entries of a category, calculateDeductions counts at most 500,000
\* of rent_relief, at most 50,000,000 of job_loss and at most 8% of the gross
\* income of pension, and every other category in full.
C5_CapsPerCategory ==
  Done("calculateDeductions") =>
    LET counted(type) == SumOf(OfType(result.applied, type), "amount")
        claimed(type) == SumOf(OfType(input.deductions, type), "amount")
        \* the total holds every applied amount: the gross income cut nothing
        allCounted    == result.total = SumOf(result.applied, "amount")
    IN  allCounted =>
          /\ Le(counted("rent_relief"), N(500000))
          /\ Le(counted("job_loss"), N(50000000))
          /\ Le(counted("pension"), Div(Times(input.grossIncome, N(8)), N(100)))
          /\ \A type \in {"nhis", "gift"} : counted(type) = claimed(type)

\* C6: calculatePIT returns 0 <= totalDeductions <= grossIncome and
\* taxableIncome = max(0, grossIncome - totalDeductions)
\* = grossIncome - totalDeductions >= 0, with grossIncome the sum of the
\* amounts of the incomes.
C6_DeductionsWithinGross ==
  Done("calculatePIT") =>
    /\ result.grossIncome = SumOf(input.incomeSources, "amount")
    /\ Le(Zero, result.totalDeductions)
    /\ Le(result.totalDeductions, result.grossIncome)
    /\ result.taxableIncome = MathMax(Zero, Minus(result.grossIncome, result.totalDeductions))
    /\ result.taxableIncome = Minus(result.grossIncome, result.totalDeductions)
    /\ Le(Zero, result.taxableIncome)

\* deductions that add up to more than the gross income
C6_Witness ==
  /\ Done("calculatePIT")
  /\ Gt(result.grossIncome, Zero)
  /\ Gt(SumOf(input.deductions, "amount"), result.grossIncome)
  /\ result.totalDeductions = result.grossIncome
  /\ result.taxableIncome = Zero

\* C7: every result of calculatePIT, exempt or not, has
\* netTakeHome = grossIncome - totalDeductions - totalTax,
\* monthlyTax = totalTax / 12 and monthlyNetPay = netTakeHome / 12.
C7_NetAndMonthly ==
  Done("calculatePIT") =>
    /\ result.netTakeHome =
         Minus(Minus(result.grossIncome, result.totalDeductions), result.totalTax)
    /\ result.monthlyTax = Div(result.totalTax, N(12))
    /\ result.monthlyNetPay = Div(result.netTakeHome, N(12))

\* a taxed result with deductions
C7_Witness ==
  /\ Done("calculatePIT")
  /\ ~result.isExempt
  /\ Gt(result.totalDeductions, Zero)
  /\ Gt(result.monthlyTax, Zero)

\* C8: the breakdown of calculateProgressiveTax has one entry for each
\* bracket of PIT_BRACKETS, in the order of the table, and a bracket
\* reached with nothing remaining has taxableInBracket = 0 and
\* taxForBracket = 0.
C8_EveryBracketListed ==
  Done("calculateProgressiveTax") =>
    LET bd == result.breakdown
        taken(i) == SumOf(SubSeq(bd, 1, i - 1), "taxableInBracket")
    IN  /\ Len(bd) = Len(PIT_BRACKETS)
        /\ \A i \in 1..Len(bd) : bd[i].bracket = PIT_BRACKETS[i]
        /\ \A i \in 1..Len(bd) :
             Le(input.taxableIncome, taken(i)) =>
               bd[i].taxableInBracket = Zero /\ bd[i].taxForBracket = Zero

\* an amount of 0: six entries, all of them zero
C8_Witness ==
  /\ Done("calculateProgressiveTax")
  /\ input.taxableIncome = Zero
  /\ Len(result.breakdown) = 6
  /\ result.breakdown[6].taxableInBracket = Zero

\* C9: with a taxable income of at most 800,000 the bracketBreakdown of
\* calculatePIT is one entry, the zero-rate band with the taxable income
\* and no tax; above 800,000 it is the breakdown of calculateProgressiveTax.
C9_ExemptBreakdownShape ==
  Done("calculatePIT") =>
    IF Le(result.taxableIncome, N(800000))
    THEN result.bracketBreakdown =
           << [bracket |-> PIT_BRACKETS[1],
               taxableInBracket |-> result.taxableIncome,
               taxForBracket |-> Zero] >>
    ELSE /\ Len(result.bracketBreakdown) = Len(PIT_BRACKETS)
         /\ result.bracketBreakdown = calculateProgressiveTax(result.taxableIncome).breakdown

\* an exempt result with an income
C9_Witness ==
  /\ Done("calculatePIT")
  /\ result.isExempt
  /\ Gt(result.taxableIncome, Zero)
  /\ Len(result.bracketBreakdown) = 1

\* C10: calculatePIT returns the same result, field by field, with
\* isResident = TRUE and with isResident = FALSE.
C10_ResidencyIgnored ==
  Done("calculatePIT") =>
    result = calculatePIT(input.incomeSources, input.deductions, ~input.isResident)

\* a taxed non-resident
C10_Witness ==
  /\ Done("calculatePIT")
  /\ ~input.isResident
  /\ ~result.isExempt
  /\ Gt(result.totalTax, Zero)

\* C11: for every turnover up to 100,000,000, the limit included,
\* calculateCIT classifies the company as small and returns citAmount,
\* developmentLevy, minimumTaxTopUp, cfcTax, totalTaxPayable and
\* effectiveTaxRate all 0, whatever the other inputs are; every turnover
\* above 100,000,000 is classified as other.
C11_SmallCompanyZeroTax ==
  Done("calculateCIT") =>
    IF Le(input.in.turnover, N(100000000))
    THEN /\ result.companySize = "small"
         /\ result.citAmount = Zero
         /\ result.developmentLevy = Zero
         /\ result.minimumTaxTopUp = Zero
         /\ result.cfcTax = Zero
         /\ result.totalTaxPayable = Zero
         /\ result.effectiveTaxRate = Zero
    ELSE result.companySize = "other"

\* a multinational of exactly the limit's turnover, with profits and
\* undistributed foreign profits
C11_Witness ==
  /\ Done("calculateCIT")
  /\ input.in.turnover = N(100000000)
  /\ input.in.assessableProfits = N(20000000)
  /\ input.in.isMultinationalSubject
  /\ Has(input.in, "foreignProfits") /\ input.in.foreignProfits = N(10000000)
  /\ ~Has(input.in, "distributedForeignProfits")
  /\ result.totalTaxPayable = Zero

\* C12: for every turnover above 100,000,000, citAmount is assessableProfits
\* * 30 / 100, developmentLevy is assessableProfits * 4 / 100,
\* totalTaxBeforeTopUp is their sum and totalTaxPayable is citAmount +
\* developmentLevy + minimumTaxTopUp + cfcTax; a turnover of 200,000,000 with
\* profits of 10,000,000 of a domestic company that is no multinational
\* subject gives 3,000,000, 400,000 and 3,400,000.
C12_OtherCompanyTax ==
  (Done("calculateCIT") /\ Gt(input.in.turnover, N(100000000))) =>
    LET profits == input.in.assessableProfits
    IN  /\ result.citAmount = Div(Times(profits, N(30)), N(100))
        /\ result.developmentLevy = Div(Times(profits, N(4)), N(100))
        /\ result.totalTaxBeforeTopUp = Plus(result.citAmount, result.developmentLevy)
        /\ result.totalTaxPayable =
             Plus(Plus(Plus(result.citAmount, result.developmentLevy),
                       result.minimumTaxTopUp), result.cfcTax)
        /\ (/\ input.in.turnover = N(200000000)
            /\ profits = N(10000000)
            /\ input.in.companyType = "domestic"
            /\ ~input.in.isMultinationalSubject
            /\ ~Has(input.in, "foreignProfits")
            /\ ~Has(input.in, "distributedForeignProfits"))
           => /\ result.citAmount = N(3000000)
              /\ result.developmentLevy = N(400000)
              /\ result.totalTaxPayable = N(3400000)

\* a company above the limit that owes tax on foreign profits, too
C12_Witness ==
  /\ Done("calculateCIT")
  /\ input.in.turnover = N(200000000)
  /\ input.in.assessableProfits = N(10000000)
  /\ Has(input.in, "foreignProfits") /\ input.in.foreignProfits = N(10000000)
  /\ Has(input.in, "distributedForeignProfits")
  /\ input.in.distributedForeignProfits = N(2000000)
  /\ result.totalTaxPayable = N(5800000)

\* C13: calculateMinimumTaxTopUp(assessableProfits, currentTax, isSubject) is
\* 0 when isSubject is false or assessableProfits <= 0 or currentTax /
\* assessableProfits * 100 >= 15, and assessableProfits * 15 / 100 -
\* currentTax otherwise; it is never negative, and for a subject company
\* with positive profits (currentTax + topUp) / assessableProfits * 100 >= 15.
\* calculateCIT applies it once, to the tax before the top-up.
C13_MinimumTaxTopUp ==
  /\ Done("calculateMinimumTaxTopUp") =>
       LET profits    == input.assessableProfits
           currentTax == input.currentTax
           isSubject  == input.isSubjectToMETR
       IN  /\ result = IF \/ ~isSubject
                          \/ Le(profits, Zero)
                          \/ Le(N(15), Percent(currentTax, profits))
                       THEN Zero
                       ELSE Minus(Div(Times(profits, N(15)), N(100)), currentTax)
           /\ Le(Zero, result)
           /\ (isSubject /\ Gt(profits, Zero))
                => Le(N(15), Percent(Plus(currentTax, result), profits))
  /\ (Done("calculateCIT") /\ result.companySize = "other") =>
       result.minimumTaxTopUp =
         calculateMinimumTaxTopUp(input.in.assessableProfits,
                                  result.totalTaxBeforeTopUp,
                                  input.in.isMultinationalSubject)

\* a subject company taxed at 10%: the top-up is the missing 5%
C13_Witness ==
  /\ Done("calculateMinimumTaxTopUp")
  /\ input.isSubjectToMETR
  /\ input.assessableProfits = N(10000000)
  /\ input.currentTax = N(1000000)
  /\ result = N(500000)

\* C14: for every turnover above 100,000,000, cfcTax is max(0,
\* foreignProfits - distributedForeignProfits) * 30 / 100, an absent amount
\* counted as 0; it is the same whether isMultinationalSubject is true or
\* false, and 0 when the distributed profits are at least the foreign profits.
C14_CFCTax ==
  (Done("calculateCIT") /\ Gt(input.in.turnover, N(100000000))) =>
    LET foreign     == IF Has(input.in, "foreignProfits")
                       THEN input.in.foreignProfits ELSE Zero
        distributed == IF Has(input.in, "distributedForeignProfits")
                       THEN input.in.distributedForeignProfits ELSE Zero
        other       == [input.in EXCEPT !.isMultinationalSubject = ~@]
    IN  /\ result.cfcTax =
             Div(Times(MathMax(Zero, Minus(foreign, distributed)), N(30)), N(100))
        /\ result.cfcTax = calculateCIT(other).cfcTax
        /\ Le(foreign, distributed) => result.cfcTax = Zero

\* more is distributed than the foreign profits, for a company that is no
\* multinational subject
C14_Witness ==
  /\ Done("calculateCIT")
  /\ Gt(input.in.turnover, N(100000000))
  /\ ~input.in.isMultinationalSubject
  /\ Has(input.in, "foreignProfits") /\ input.in.foreignProfits = N(5000000)
  /\ Has(input.in, "distributedForeignProfits")
  /\ input.in.distributedForeignProfits = N(12000000)
  /\ result.cfcTax = Zero

\* C15: every call returns a result with finite rates, and each rate guards
\* its zero denominator: calculatePIT returns effectiveRate = totalTax /
\* grossIncome * 100 when grossIncome > 0 and 0 when grossIncome = 0;
\* calculateCIT returns effectiveTaxRate = totalTaxPayable /
\* assessableProfits * 100 when assessableProfits > 0 and 0 when
\* assessableProfits = 0, even with a cfcTax above 0; calculateCGT returns
\* effectiveRate = 0 when saleProceeds = 0.
C15_RatesGuardZero ==
  /\ pc = "done" => DOMAIN result # {}
  /\ Done("calculatePIT") =>
       LET grossIncome == SumOf(input.incomeSources, "amount")
       IN  /\ ~IsInfinity(result.effectiveRate)
           /\ result.effectiveRate =
                IF Gt(grossIncome, Zero) THEN Percent(result.totalTax, grossIncome)
                ELSE Zero
  /\ Done("calculateCIT") =>
       LET profits == input.in.assessableProfits
       IN  /\ ~IsInfinity(result.effectiveTaxRate)
           /\ result.effectiveTaxRate =
                IF Gt(profits, Zero) THEN Percent(result.totalTaxPayable, profits)
                ELSE Zero
  /\ Done("calculateCGT") =>
       /\ ~IsInfinity(result.effectiveRate)
       /\ input.in.saleProceeds = Zero => result.effectiveRate = Zero
  /\ Done("calculateVAT") => ~IsInfinity(result.netAmount)

\* a company without profits that owes tax on foreign profits
C15_Witness ==
  /\ Done("calculateCIT")
  /\ input.in.assessableProfits = Zero
  /\ Gt(result.cfcTax, Zero)
  /\ result.totalTaxPayable = result.cfcTax
  /\ result.effectiveTaxRate = Zero

\* C16: every result of calculateCGT, on the company, small-company,
\* individual and individual-exempt paths alike, has totalCosts =
\* acquisitionCost + improvementCosts + transferCosts (an absent cost
\* counted as 0), capitalGain = max(0, saleProceeds - totalCosts) >= 0 and
\* netProceeds = saleProceeds - cgtAmount.
C16_CostsGainAndNetProceeds ==
  Done("calculateCGT") =>
    LET in          == input.in
        improvement == IF Has(in, "improvementCosts") THEN in.improvementCosts ELSE Zero
        transfer    == IF Has(in, "transferCosts") THEN in.transferCosts ELSE Zero
    IN  /\ result.totalCosts = Plus(Plus(in.acquisitionCost, improvement), transfer)
        /\ result.capitalGain = MathMax(Zero, Minus(in.saleProceeds, result.totalCosts))
        /\ Le(Zero, result.capitalGain)
        /\ result.netProceeds = Minus(in.saleProceeds, result.cgtAmount)

\* an individual's taxed gain with costs of all three kinds
C16_Witness ==
  /\ Done("calculateCGT")
  /\ input.in.taxpayerType = "individual"
  /\ Positive(input.in, "improvementCosts")
  /\ Positive(input.in, "transferCosts")
  /\ Gt(input.in.acquisitionCost, Zero)
  /\ ~result.isExempt
  /\ Gt(result.cgtAmount, Zero)
  /\ result.netProceeds # input.in.saleProceeds

\* C17: for a company, a companyTurnover that is supplied and at most
\* 100,000,000 gives cgtAmount = 0 and isExempt = true whatever the gain;
\* an absent turnover or one above the limit gives cgtAmount = capitalGain *
\* 30 / 100 and isExempt = false.  The value of isOffshoreTransfer changes
\* no field of the result but the notes of the breakdown.
C17_CompanyCGT ==
  (Done("calculateCGT") /\ input.in.taxpayerType = "company") =>
    LET in         == input.in
        offshore   == calculateCGT([isOffshoreTransfer |-> TRUE] @@ in)
        onshore    == calculateCGT([isOffshoreTransfer |-> FALSE] @@ in)
        numbers(r) == [f \in DOMAIN r \ {"breakdown"} |-> r[f]]
        amounts(r) == [i \in DOMAIN r.breakdown |->
                         <<r.breakdown[i].label, r.breakdown[i].amount>>]
    IN  /\ IF Has(in, "companyTurnover") /\ Le(in.companyTurnover, N(100000000))
           THEN result.cgtAmount = Zero /\ result.isExempt
           ELSE /\ result.cgtAmount = Div(Times(result.capitalGain, N(30)), N(100))
                /\ ~result.isExempt
        /\ numbers(offshore) = numbers(result)
        /\ numbers(onshore) = numbers(result)
        /\ amounts(offshore) = amounts(result)
        /\ amounts(onshore) = amounts(result)

\* an offshore transfer of a company that gives no turnover
C17_Witness ==
  /\ Done("calculateCGT")
  /\ input.in.taxpayerType = "company"
  /\ ~Has(input.in, "companyTurnover")
  /\ Has(input.in, "isOffshoreTransfer") /\ input.in.isOffshoreTransfer
  /\ input.in.saleProceeds = N(2000000)
  /\ result.capitalGain = N(1500000)
  /\ result.cgtAmount = N(450000)

\* C18: for an individual and every capitalGain above 800,000, cgtAmount is
\* calculateProgressiveTax(capitalGain).totalTax on the brackets of
\* PIT_BRACKETS, so at most 25% of the gain; sale proceeds of 2,000,000 and
\* an acquisition cost of 500,000 give a gain of 1,500,000 and 105,000.
C18_IndividualCGTProgressive ==
  (/\ Done("calculateCGT")
   /\ input.in.taxpayerType = "individual"
   /\ Gt(result.capitalGain, N(800000))) =>
    /\ result.cgtAmount = calculateProgressiveTax(result.capitalGain).totalTax
    /\ Le(result.cgtAmount, Div(Times(result.capitalGain, N(25)), N(100)))
    /\ (/\ input.in.saleProceeds = N(2000000)
        /\ input.in.acquisitionCost = N(500000)
        /\ ~Positive(input.in, "improvementCosts")
        /\ ~Positive(input.in, "transferCosts"))
       => /\ result.capitalGain = N(1500000)
          /\ result.cgtAmount = N(105000)

\* a gain that reaches the highest bracket
C18_Witness ==
  /\ Done("calculateCGT")
  /\ input.in.taxpayerType = "individual"
  /\ Gt(result.capitalGain, N(50000000))
  /\ Gt(result.cgtAmount, Zero)

\* C19: for every calculateCGT with saleProceeds > 0, of a company and of an
\* individual alike, effectiveRate is cgtAmount / saleProceeds * 100.
C19_EffectiveRateOfProceeds ==
  (Done("calculateCGT") /\ Gt(input.in.saleProceeds, Zero)) =>
    result.effectiveRate = Percent(result.cgtAmount, input.in.saleProceeds)

C22_BusinessVAT ==
  Done("calculateBusinessVAT") =>
    /\ result.netVAT = Minus(input.in.outputVAT, input.in.inputVAT)
    /\ result.isPayable = Gt(result.netVAT, Zero)
    /\ result.isRefundable = (Le(result.netVAT, Zero) /\ result.netVAT # Zero)
    /\ ~(result.isPayable /\ result.isRefundable)
    /\ (~result.isPayable /\ ~result.isRefundable) = (result.netVAT = Zero)
    /\ (input.in.outputVAT = N(50000) /\ input.in.inputVAT = N(80000)) =>
         /\ result.netVAT = N(-30000)
         /\ result.isRefundable
         /\ ~result.isPayable

\* as much VAT paid as collected: neither payable nor refundable
C22_Witness ==
  /\ Done("calculateBusinessVAT")
  /\ input.in.outputVAT = N(50000)
  /\ input.in.inputVAT = N(50000)
  /\ result.netVAT = Zero
  /\ ~result.isPayable
  /\ ~result.isRefundable

\* C27: with CIT at 30%, the development levy at 4% and the minimum
\* effective rate at 15%, calculateCIT returns minimumTaxTopUp = 0 for every
\* input with assessableProfits >= 0, a multinational subject or not, so
\* that totalTaxPayable = citAmount + developmentLevy + cfcTax for every
\* company that is not small.
C27_TopUpNeverCharged ==
  (Done("calculateCIT") /\ Le(Zero, input.in.assessableProfits)) =>
    /\ CIT_RATE = N(30) /\ DEVELOPMENT_LEVY_RATE = N(4)
    /\ MINIMUM_EFFECTIVE_TAX_RATE = N(15)
    /\ result.minimumTaxTopUp = Zero
    /\ result.companySize = "other" =>
         result.totalTaxPayable =
           Plus(Plus(result.citAmount, result.developmentLevy), result.cfcTax)

\* a multinational subject above the limit, with profits and foreign profits
C27_Witness ==
  /\ Done("calculateCIT")
  /\ result.companySize = "other"
  /\ input.in.isMultinationalSubject
  /\ input.in.assessableProfits = N(20000000)
  /\ Gt(result.cfcTax, Zero)
  /\ result.minimumTaxTopUp = Zero
  /\ result.totalTaxPayable = N(9200000)

\* the record of the key counts MAX_ATTEMPTS attempts or more, the last
\* of them no more than LOCKOUT_DURATION ago
Locked(key) ==
  /\ key \in DOMAIN loginAttempts
  /\ loginAttempts[key].count >= MAX_ATTEMPTS
  /\ now - loginAttempts[key].lastAttempt <= LOCKOUT_DURATION

\* the record of the key is older than LOCKOUT_DURATION
Stale(key) ==
  /\ key \in DOMAIN loginAttempts
  /\ now - loginAttempts[key].lastAttempt > LOCKOUT_DURATION

\* C23: once five failed attempts are recorded for an email, in whatever
\* case it is typed, a call of login no later than 15 minutes after the last
\* recorded attempt fails with 'Too many login attempts' and signInWithEmail
\* is not called; a successful login deletes the record of the email; a
\* record older than 15 minutes is deleted by the next check, and that call
\* goes on to signInWithEmail.
C23_LoginRateLimit ==
  [][ /\ \A email \in Emails :
           (Locked(toLowerCase(email)) /\ login(email))
             => /\ calls'.login = "idle"
                /\ authState'.error = "Too many login attempts"
                /\ ~authState'.isLoading
                /\ UNCHANGED session
      /\ \A email \in Emails :
           (Stale(toLowerCase(email)) /\ login(email))
             => /\ calls'.login = email
                /\ toLowerCase(email) \notin DOMAIN loginAttempts'
      /\ \A email \in Emails :
           (~Locked(toLowerCase(email)) /\ login(email)) => calls'.login = email
      /\ loginSignedIn => toLowerCase(calls.login) \notin DOMAIN loginAttempts'
      /\ loginFails
           => /\ toLowerCase(calls.login) \in DOMAIN loginAttempts'
              /\ loginAttempts'[toLowerCase(calls.login)].lastAttempt = now
    ]_vars

\* C23: a sixth call was rejected, after the time has moved on, for the
\* email typed in another case, while another email is not locked out
C23_Witness ==
  /\ Locked("ade@x.ng")
  /\ loginAttempts["ade@x.ng"].count > MAX_ATTEMPTS
  /\ authState.error = "Too many login attempts"
  /\ calls.login = "idle"
  /\ now > 0

\* C28: a call of login that the rate limit rejects leaves the record of
\* the email as it was.
C28_RejectedCallLeavesRecord ==
  [][ \A email \in Emails :
        (Locked(toLowerCase(email)) /\ login(email))
          => loginAttempts' = loginAttempts ]_vars

\* the steps of C25
ProtectedActionSteps ==
  /\ \A feature \in Features :
       handleClick(feature)
         => IF authState.isAuthenticated
            THEN /\ returned' = "true"
                 /\ pendingAction' = pendingAction
                 /\ ran'[clicks + 1] = 1
            ELSE /\ returned' = "false"
                 /\ pendingAction' =
                      << [feature |-> feature, pendingAction |-> clicks + 1] >>
                 /\ showAuthModal' /\ authModalMode' = "login"
                 /\ ran'[clicks + 1] = 0
  /\ \A id \in DOMAIN ran :
       ran'[id] # ran[id]
         => /\ authState.isAuthenticated
            /\ pendingAction = << [feature |-> pendingAction[1].feature,
                                   pendingAction |-> id] >>
            /\ pendingAction' = <<>>
  /\ (authState.isAuthenticated /\ pendingAction # <<>>)
       => ENABLED executePendingAction
  /\ logoutSignedOut => pendingAction' = <<>>

CallEnds ==
  \/ \E email \in Emails : Locked(toLowerCase(email)) /\ login(email)
  \/ loginSignedIn \/ loginFails
  \/ signupSignedUp \/ signupFails
  \/ googleSignInFails \/ googleGetSessionReturns
  \/ logoutSignedOut \/ logoutFails

\* a step in which a call of login, signup, loginWithGoogle or logout starts
\* and goes on to its request
CallStarts ==
  \/ \E email \in Emails : ~Locked(toLowerCase(email)) /\ login(email)
  \/ \E email \in Emails : signup(email)
  \/ loginWithGoogle
  \/ logout

\* C29: once the session has ended and the user is null (logout has
\* succeeded, or the SIGNED_OUT event has been applied), the user stays null
\* until login, signup or loginWithGoogle succeeds; and isAuthenticated is
\* true exactly when user is not null.
C29_SignedOutStays ==
  /\ [](authState.isAuthenticated <=> authState.user # None)
  /\ [][ (session = None /\ authState.user = None /\ authState'.user # None)
           => (loginSignedIn \/ signupSignedUp \/ googleGetSessionReturns) ]_vars

\* C30: a call sets isLoading when it starts, and isLoading is false when
\* the call has ended, however it ended.
C30_LoadingEnds ==
  [][ /\ CallStarts => authState'.isLoading
      /\ CallEnds => ~authState'.isLoading ]_vars

\* C24: for each filing reminder at most one email of each kind is sent,
\* whatever the runs of the function, overlapping runs included.
C24_AtMostOneEmailOfEachKind ==
  \A id \in ReminderIds : \A field \in UpdateFields : emails[id][field] <= 1

\* the request is a POST with a Bearer token that resolves to a user
Authenticated(ev) ==
  /\ ev.httpMethod = "POST"
  /\ ev.authorization.scheme = "Bearer "
  /\ getUser(ev.authorization.token) # None

\* the answer the claim gives to a request that must not write
Refusal(ev) ==
  IF ev.httpMethod # "POST" THEN 405
  ELSE IF ev.authorization.scheme # "Bearer " THEN 401
  ELSE IF getUser(ev.authorization.token) = None THEN 401
  ELSE IF ev.body.userId # getUser(ev.authorization.token) THEN 403
  ELSE 0

\* a write changes nothing but the row of the authenticated user, for a
\* request that is a POST of that user for the user's own row
WritesOwnRowOnly ==
  /\ subscriptionUpdated
       => /\ Authenticated(event)
          /\ event.body.kind = "json"
          /\ event.body.userId = getUser(event.authorization.token)
  /\ \A user_id \in DOMAIN subscriptions :
       subscriptions'[user_id] # subscriptions[user_id]
         => /\ subscriptionUpdated
            /\ user_id = getUser(event.authorization.token)

AbsDiff(x, y) ==
  LET e == MinExp(x, y)
      a == ShiftLeftBits(x.m, x.e - e)
      b == ShiftLeftBits(y.m, y.e - e)
  IN  [m |-> IF LeNat(b, a) THEN SubNat(a, b) ELSE SubNat(b, a), e |-> e]

\* d <= 1e-6, that is d * 1,000,000 <= 1
WithinMillionth(d) ==
  \/ d.m = <<>>
  \/ /\ d.e < 0
     /\ LeNat(MulNat(d.m, NatOf(1000000)), ShiftLeftBits(<<1>>, -d.e))

\* d is at most the unit in the last place of x, 2^(x.e)
WithinUlp(d, x) ==
  \/ d.m = <<>>
  \/ /\ x.m # <<>>
     /\ LET e == MinExp(d, x)
        IN  LeNat(ShiftLeftBits(d.m, d.e - e), ShiftLeftBits(<<1>>, x.e - e))

\* x < 2^33 = 8,589,934,592: x is less than 2^(x.e + 53)
BelowTwoTo33(x) == x.m = <<>> \/ x.e + 53 <= 33

\* the round trip is over
RoundTripDone == pc = "done" /\ Len(result) = 2

\* C21 as the spec states it: for every net amount N >= 0, calculateVAT
\* exclusive on N and then inclusive on the grossAmount returns N as
\* netAmount and the same vatAmount, both within 1e-6. Violated: for
\* N = 8,589,934,596 the netAmount differs from N by 2^-19 = 1.9e-6.
C21_RoundTripWithinMillionth ==
  RoundTripDone =>
    /\ WithinMillionth(AbsDiff(result[2].netAmount, input.amount))
    /\ WithinMillionth(AbsDiff(result[2].vatAmount, result[1].vatAmount))

\* C21, amended: for every net amount 0 <= N < 2^33 (8,589,934,592) the
\* round trip returns netAmount and vatAmount within 1e-6 of N and of the
\* first vatAmount, and for every N >= 0 within one unit in the last place
\* of N (at most N * 2^-52).
C21_RoundTripWithinUlp ==
  RoundTripDone =>
    /\ BelowTwoTo33(input.amount) =>
         /\ WithinMillionth(AbsDiff(result[2].netAmount, input.amount))
         /\ WithinMillionth(AbsDiff(result[2].vatAmount, result[1].vatAmount))
    /\ WithinUlp(AbsDiff(result[2].netAmount, input.amount), input.amount)
    /\ WithinUlp(AbsDiff(result[2].vatAmount, result[1].vatAmount), input.amount)

\* a round trip of an amount from 2^32 up to 2^33 that does not return the
\* amount itself
C21_Witness ==
  /\ RoundTripDone
  /\ input.amount.m # <<>>
  /\ input.amount.e + 53 = 33
  /\ AbsDiff(result[2].netAmount, input.amount).m # <<>>
  /\ AbsDiff(result[2].vatAmount, result[1].vatAmount).m # <<>>

====
